---- MODULE Spec2Model ----
(***************************************************************************)
(* Model of the commit-msg hook (src/src/commands/exec.ts): the message    *)
(* normalizer, the commit classifier, the Change-Id generator, the         *)
(* environment resolver, the trailer engine and the orchestrator.          *)
(* Messages are strings; the JavaScript string primitives the code uses    *)
(* are defined character by character below.                               *)
(***************************************************************************)
EXTENDS Integers, Sequences, FiniteSets, TLC

(***************************************************************************)
(* JavaScript string primitives                                            *)
(***************************************************************************)

\* Characters String.prototype.trim / trimEnd and the regex class \s remove.
WhiteSpace == {" ", "\t", "\n", "\r", "\f"}

\* Characters the regex '.' does not match.
LineTerminators == {"\n", "\r"}

UpperAlpha == "ABCDEFGHIJKLMNOPQRSTUVWXYZ"
LowerAlpha == "abcdefghijklmnopqrstuvwxyz"
DigitChars == "0123456789"

\* Characters m..n of s (from 1), clamped to the string as
\* String.prototype.substring clamps its arguments.
slice(s, m, n) ==
    LET lo == IF m < 1 THEN 1 ELSE m
        hi == IF n > Len(s) THEN Len(s) ELSE n
    IN  IF lo > hi THEN "" ELSE SubSeq(s, lo, hi)

\* String.prototype.charAt, from 1: "" outside the string.
charAt(s, i) == IF i >= 1 /\ i <= Len(s) THEN SubSeq(s, i, i) ELSE ""

CharsOf(s) == {charAt(s, i) : i \in 1..Len(s)}

UpperSet == CharsOf(UpperAlpha)
LowerSet == CharsOf(LowerAlpha)
DigitSet == CharsOf(DigitChars)

\* The regex class [a-zA-Z0-9-].
KeyChars == UpperSet \cup LowerSet \cup DigitSet \cup {"-"}

\* The regex class [a-f0-9].
HexChars == DigitSet \cup {"a", "b", "c", "d", "e", "f"}

substringFrom(s, n) == slice(s, n + 1, Len(s))

startsWith(s, p) == Len(s) >= Len(p) /\ slice(s, 1, Len(p)) = p

endsWith(s, p) == Len(s) >= Len(p) /\ slice(s, Len(s) - Len(p) + 1, Len(s)) = p

includes(s, p) == \E i \in 1..(Len(s) - Len(p) + 1) : slice(s, i, i + Len(p) - 1) = p

\* The lower-case letter of every upper-case letter.
lowerOf ==
    [c \in UpperSet |->
        charAt(LowerAlpha, CHOOSE i \in 1..26 : charAt(UpperAlpha, i) = c)]

toLowerChar(c) == IF c \in UpperSet THEN lowerOf[c] ELSE c

\* String.prototype.toLowerCase, character by character (by halves, to keep
\* the evaluation shallow).
RECURSIVE toLowerCase(_)
toLowerCase(s) ==
    IF Len(s) = 0 THEN ""
    ELSE IF Len(s) = 1 THEN toLowerChar(s)
    ELSE LET half == Len(s) \div 2 IN
         toLowerCase(slice(s, 1, half)) \o toLowerCase(substringFrom(s, half))

\* s.toLowerCase().startsWith(p) for a lower-case p: lower-casing keeps every
\* character in its place, so the characters of s are converted and compared
\* one at a time, up to the first that differs.
RECURSIVE lowerMatches(_, _, _)
lowerMatches(s, p, i) ==
    IF i > Len(p) THEN TRUE
    ELSE IF toLowerChar(SubSeq(s, i, i)) # SubSeq(p, i, i) THEN FALSE
    ELSE lowerMatches(s, p, i + 1)

lowerStartsWith(s, p) == Len(s) >= Len(p) /\ lowerMatches(s, p, 1)

\* Number of leading characters of s that belong to cs.
RECURSIVE LeadingRun(_, _)
LeadingRun(s, cs) ==
    IF s = "" \/ Head(s) \notin cs THEN 0 ELSE 1 + LeadingRun(Tail(s), cs)

\* Number of trailing characters of s that belong to cs.
RECURSIVE TrailingRun(_, _)
TrailingRun(s, cs) ==
    IF s = "" \/ charAt(s, Len(s)) \notin cs
    THEN 0
    ELSE 1 + TrailingRun(slice(s, 1, Len(s) - 1), cs)

StripLeading(s, cs) == substringFrom(s, LeadingRun(s, cs))

StripTrailing(s, cs) == slice(s, 1, Len(s) - TrailingRun(s, cs))

trimEnd(s) == StripTrailing(s, WhiteSpace)

trim(s) == StripLeading(StripTrailing(s, WhiteSpace), WhiteSpace)

\* Position (from 1) of the first occurrence of the character c in s at or
\* after position i; 0 if there is none.
RECURSIVE findChar(_, _, _)
findChar(s, c, i) ==
    IF i > Len(s) THEN 0
    ELSE IF SubSeq(s, i, i) = c THEN i
    ELSE findChar(s, c, i + 1)

\* The positions of the newlines of s.
newlines(s) == {i \in 1..Len(s) : SubSeq(s, i, i) = "\n"}

\* The lines of s from position i on, given the positions of its newlines.
RECURSIVE splitFrom(_, _, _)
splitFrom(s, i, nls) ==
    IF \A n \in nls : n < i THEN <<slice(s, i, Len(s))>>
    ELSE LET nl == CHOOSE n \in nls : n >= i /\ \A m \in nls : m >= i => n <= m
         IN  <<slice(s, i, nl - 1)>> \o splitFrom(s, nl + 1, nls)

\* message.split('\n')
split(s) == splitFrom(s, 1, newlines(s))

\* lines.join('\n')
RECURSIVE join(_)
join(lines) ==
    IF Len(lines) = 0 THEN ""
    ELSE IF Len(lines) = 1 THEN lines[1]
    ELSE lines[1] \o "\n" \o join(Tail(lines))

(***************************************************************************)
(* Message Normalizer                                                      *)
(***************************************************************************)

DiffPrefix == "diff --git "

\* The scissors test of cleanCommitMessage on a comment line.
isScissorsLine(line, commentChar) ==
    LET contentAfterComment == substringFrom(line, Len(commentChar))
        dashOrSpace == WhiteSpace \cup {"-"}
        scissorsPattern ==
            trim(StripTrailing(StripLeading(contentAfterComment, dashOrSpace),
                               dashOrSpace))
    IN  scissorsPattern = ">8" \/ scissorsPattern = "8<"

\* Faulty variant of cleanLoop: a scissors line is dropped like any other
\* comment and the lines after it are still processed.
RECURSIVE cleanLoopPastScissors(_, _, _, _, _)
cleanLoopPastScissors(lines, i, commentChar, processedLines, lastLineWasEmpty) ==
    IF i > Len(lines) THEN processedLines
    ELSE LET line == lines[i] IN
         IF startsWith(line, DiffPrefix) THEN processedLines
         ELSE IF startsWith(line, commentChar)
         THEN cleanLoopPastScissors(lines, i + 1, commentChar, processedLines,
                                    lastLineWasEmpty)
         ELSE LET trimmedLine == trimEnd(line) IN
              IF trimmedLine = ""
              THEN IF ~lastLineWasEmpty
                   THEN cleanLoopPastScissors(lines, i + 1, commentChar,
                                              Append(processedLines, trimmedLine), TRUE)
                   ELSE cleanLoopPastScissors(lines, i + 1, commentChar,
                                              processedLines, lastLineWasEmpty)
              ELSE cleanLoopPastScissors(lines, i + 1, commentChar,
                                         Append(processedLines, trimmedLine), FALSE)

\* Faulty variant of cleanLoop: every blank line is kept.
RECURSIVE cleanLoopKeepBlanks(_, _, _, _, _)
cleanLoopKeepBlanks(lines, i, commentChar, processedLines, lastLineWasEmpty) ==
    IF i > Len(lines) THEN processedLines
    ELSE LET line == lines[i] IN
         IF startsWith(line, DiffPrefix) THEN processedLines
         ELSE IF startsWith(line, commentChar)
         THEN IF isScissorsLine(line, commentChar)
              THEN processedLines
              ELSE cleanLoopKeepBlanks(lines, i + 1, commentChar, processedLines,
                                       lastLineWasEmpty)
         ELSE cleanLoopKeepBlanks(lines, i + 1, commentChar,
                                  Append(processedLines, trimEnd(line)),
                                  trimEnd(line) = "")

\* The for loop of cleanCommitMessage: processedLines after the lines from
\* index i on have been handled.
RECURSIVE cleanLoop(_, _, _, _, _)
cleanLoop(lines, i, commentChar, processedLines, lastLineWasEmpty) ==
    IF i > Len(lines) THEN processedLines
    ELSE LET line == lines[i] IN
         IF startsWith(line, DiffPrefix) THEN processedLines
         ELSE IF startsWith(line, commentChar)
         THEN IF isScissorsLine(line, commentChar)
              THEN processedLines
              ELSE cleanLoop(lines, i + 1, commentChar, processedLines,
                             lastLineWasEmpty)
         ELSE LET trimmedLine == trimEnd(line) IN
              IF trimmedLine = ""
              THEN IF ~lastLineWasEmpty
                   THEN cleanLoop(lines, i + 1, commentChar,
                                  Append(processedLines, trimmedLine), TRUE)
                   ELSE cleanLoop(lines, i + 1, commentChar, processedLines,
                                  lastLineWasEmpty)
              ELSE cleanLoop(lines, i + 1, commentChar,
                             Append(processedLines, trimmedLine), FALSE)

\* The while loop of cleanCommitMessage that pops trailing empty lines.
RECURSIVE popTrailingEmpty(_)
popTrailingEmpty(processedLines) ==
    IF Len(processedLines) > 0 /\ processedLines[Len(processedLines)] = ""
    THEN popTrailingEmpty(SubSeq(processedLines, 1, Len(processedLines) - 1))
    ELSE processedLines

\* processedLines of cleanCommitMessage before the emptiness check.
cleanLines(message, commentChar) ==
    popTrailingEmpty(cleanLoop(split(message), 1, commentChar, <<>>, TRUE))

\* Faulty variant of hasNonEmptyNonSignedOffBy: any non-empty line counts,
\* Signed-off-by lines included.
hasNonEmptyLine(processedLines) ==
    \E i \in 1..Len(processedLines) : trim(processedLines[i]) # ""

hasNonEmptyNonSignedOffBy(processedLines) ==
    \E i \in 1..Len(processedLines) :
        LET trimmed == trim(processedLines[i]) IN
        trimmed # "" /\ ~lowerStartsWith(trimmed, "signed-off-by:")

\* Faulty variant of cleanCommitMessage: the blank line is inserted after
\* the first line without shouldSave being set.
cleanCommitMessageUnsaved(message, commentChar) ==
    LET processedLines == cleanLines(message, commentChar) IN
    IF ~hasNonEmptyNonSignedOffBy(processedLines)
    THEN [message |-> "", shouldSave |-> FALSE]
    ELSE IF Len(processedLines) >= 2 /\ processedLines[2] # ""
    THEN [message |-> join(<<processedLines[1], "">> \o Tail(processedLines)),
          shouldSave |-> FALSE]
    ELSE [message |-> join(processedLines), shouldSave |-> FALSE]

\* Faulty variant of cleanCommitMessage: the blank line is inserted after
\* the first line whatever the second line is.
cleanCommitMessageAlwaysSpaces(message, commentChar) ==
    LET processedLines == cleanLines(message, commentChar) IN
    IF ~hasNonEmptyNonSignedOffBy(processedLines)
    THEN [message |-> "", shouldSave |-> FALSE]
    ELSE IF Len(processedLines) >= 2
    THEN [message |-> join(<<processedLines[1], "">> \o Tail(processedLines)),
          shouldSave |-> TRUE]
    ELSE [message |-> join(processedLines), shouldSave |-> FALSE]

cleanCommitMessage(message, commentChar) ==
    LET processedLines == cleanLines(message, commentChar) IN
    IF ~hasNonEmptyNonSignedOffBy(processedLines)
    THEN [message |-> "", shouldSave |-> FALSE]
    ELSE IF Len(processedLines) >= 2 /\ processedLines[2] # ""
    THEN [message |-> join(<<processedLines[1], "">> \o Tail(processedLines)),
          shouldSave |-> TRUE]
    ELSE [message |-> join(processedLines), shouldSave |-> FALSE]

(***************************************************************************)
(* Commit Classifier (message part) and the "already exists" checks        *)
(***************************************************************************)

isTemporaryCommit(message) ==
    LET firstLine == trim(split(message)[1]) IN
    startsWith(firstLine, "fixup!") \/ startsWith(firstLine, "squash!")

\* Faulty variant of changeIdRegex: the class is written [A-F0-9], so the
\* lower-case identifiers the generator produces are not recognised.
changeIdRegexUpperHex(line) ==
    /\ startsWith(line, "Change-Id: I")
    /\ LET rest == substringFrom(line, Len("Change-Id: I"))
           hex  == LeadingRun(rest, DigitSet \cup {"A", "B", "C", "D", "E", "F"})
       IN  /\ hex >= 1
           /\ LeadingRun(substringFrom(rest, hex), WhiteSpace) = Len(rest) - hex

\* changeIdRegex = /^Change-Id: I[a-f0-9]+\s*$/
changeIdRegex(line) ==
    /\ startsWith(line, "Change-Id: I")
    /\ LET rest == substringFrom(line, Len("Change-Id: I"))
           hex  == LeadingRun(rest, HexChars)
       IN  /\ hex >= 1
           /\ LeadingRun(substringFrom(rest, hex), WhiteSpace) = Len(rest) - hex

\* Faulty variant of hasChangeId: only the last line is looked at.
hasChangeIdLastLine(message) ==
    LET lines == split(message) IN changeIdRegex(lines[Len(lines)])

hasChangeId(message) ==
    LET lines == split(message) IN
    \E i \in 1..Len(lines) : changeIdRegex(lines[i])

\* Faulty variant of hasCoDevelopedBy: the prefix is compared without
\* lower-casing the line.
hasCoDevelopedByCaseSensitive(message) ==
    LET lines == split(message) IN
    \E i \in 1..Len(lines) : startsWith(lines[i], "Co-developed-by:")

hasCoDevelopedBy(message) ==
    LET lines == split(message) IN
    \E i \in 1..Len(lines) :
        lowerStartsWith(lines[i], "co-developed-by:")

\* Faulty variant of needsChangeId: the temporary-commit test is left out.
needsChangeIdNoTemporary(message, createChangeId) ==
    IF ~createChangeId THEN FALSE
    ELSE IF hasChangeId(message) THEN FALSE
    ELSE TRUE

needsChangeId(message, createChangeId) ==
    IF ~createChangeId THEN FALSE
    ELSE IF hasChangeId(message) THEN FALSE
    ELSE IF isTemporaryCommit(message) THEN FALSE
    ELSE TRUE

\* Faulty variant of needsCoDevelopedBy: an existing Co-developed-by line
\* is not looked for.
needsCoDevelopedByIgnoringExisting(message, createCoDevelopedBy) ==
    IF ~createCoDevelopedBy THEN FALSE
    ELSE IF isTemporaryCommit(message) THEN FALSE
    ELSE TRUE

needsCoDevelopedBy(message, createCoDevelopedBy) ==
    IF ~createCoDevelopedBy THEN FALSE
    ELSE IF hasCoDevelopedBy(message) THEN FALSE
    ELSE IF isTemporaryCommit(message) THEN FALSE
    ELSE TRUE

(***************************************************************************)
(* Environment Signal Resolver                                             *)
(***************************************************************************)

\* The rule table, in priority order: <<"KEY=pattern", identity>>.
envConfigs ==
    << <<"CLAUDECODE=1", "Claude <noreply@anthropic.com>">>,
       <<"IFLOW_CLI=1", "iFlow <noreply@iflow.cn>">>,
       <<"QWEN_CODE=1", "Qwen-Coder <noreply@alibabacloud.com>">>,
       <<"GEMINI_CLI=1", "Gemini <noreply@developers.google.com>">>,
       <<"CURSOR_TRACE_ID=*", "Cursor <noreply@cursor.com>">>,
       <<"__CFBundleIdentifier=dev.kiro.desktop", "Kiro <noreply@kiro.dev>">>,
       <<"VSCODE_BRAND=Qoder", "Qoder <noreply@qoder.com>">>,
       <<"__CFBundleIdentifier=com.qoder.ide", "Qoder <noreply@qoder.com>">>,
       <<"VSCODE_GIT_ASKPASS_MAIN=*.cursor-server*", "Cursor <noreply@cursor.com>">>,
       <<"BROWSER=*.cursor-server*", "Cursor <noreply@cursor.com>">>,
       <<"VSCODE_GIT_ASKPASS_MAIN=*.qoder-server*", "Qoder <noreply@qoder.com>">>,
       <<"BROWSER=*.qoder-server*", "Qoder <noreply@qoder.com>">> >>

\* String.prototype.indexOf for a one-character needle: 0-based, -1 if absent.
indexOf(s, c) == findChar(s, c, 1) - 1

\* clearCoDevelopedByEnvVars: every variable a rule of the table names is
\* deleted from the environment.
clearCoDevelopedByEnvVars(processEnv) ==
    LET keyOf(envConfig) ==
            IF indexOf(envConfig, "=") = -1 THEN envConfig
            ELSE slice(envConfig, 1, indexOf(envConfig, "="))
        ruleKeys == {keyOf(envConfigs[n][1]) : n \in 1..Len(envConfigs)}
    IN  [k \in (DOMAIN processEnv) \ ruleKeys |-> processEnv[k]]

\* Faulty variant of envRuleOutcome: a rule matches as soon as its variable
\* is set, whatever the value.
envRuleOutcomeWhenSet(n, processEnv) ==
    LET envConfig  == envConfigs[n][1]
        equalIndex == indexOf(envConfig, "=")
        key        == IF equalIndex # -1 THEN slice(envConfig, 1, equalIndex)
                                         ELSE envConfig
    IN  IF key \in DOMAIN processEnv THEN "return" ELSE "continue"

\* One iteration of the loop of getCoDevelopedBy on rule n: "return" with
\* the identity, or "continue".  processEnv is a function from the names of
\* the variables that are set to their values.
envRuleOutcome(n, processEnv) ==
    LET envConfig  == envConfigs[n][1]
        equalIndex == indexOf(envConfig, "=")
        hasValue   == equalIndex # -1
        key        == IF hasValue THEN slice(envConfig, 1, equalIndex)
                                  ELSE envConfig
        expectedValue == IF hasValue THEN substringFrom(envConfig, equalIndex + 1)
                                     ELSE ""
    IN  IF key \notin DOMAIN processEnv THEN "continue"
        ELSE LET actualValue == processEnv[key] IN
             IF hasValue /\ expectedValue # "*" /\ actualValue = expectedValue
             THEN "return"
             ELSE IF expectedValue = "*" \/ ~hasValue
             THEN IF /\ actualValue # ""
                     /\ actualValue # "0"
                     /\ actualValue # "false"
                     /\ actualValue # "no"
                  THEN "return"
                  ELSE "continue"
             ELSE IF /\ expectedValue # ""
                     /\ startsWith(expectedValue, "*")
                     /\ endsWith(expectedValue, "*")
                     /\ Len(expectedValue) > 2
             THEN IF includes(actualValue,
                              slice(expectedValue, 2, Len(expectedValue) - 1))
                  THEN "return"
                  ELSE "continue"
             ELSE "continue"

\* Faulty variant of getCoDevelopedByFrom: the scan goes on after a match,
\* so that the last matching rule wins.
RECURSIVE getCoDevelopedByLastFrom(_, _)
getCoDevelopedByLastFrom(n, processEnv) ==
    IF n > Len(envConfigs) THEN ""
    ELSE LET later == getCoDevelopedByLastFrom(n + 1, processEnv) IN
         IF later # "" THEN later
         ELSE IF envRuleOutcome(n, processEnv) = "return" THEN envConfigs[n][2]
         ELSE ""

RECURSIVE getCoDevelopedByFrom(_, _)
getCoDevelopedByFrom(n, processEnv) ==
    IF n > Len(envConfigs) THEN ""
    ELSE IF envRuleOutcome(n, processEnv) = "return" THEN envConfigs[n][2]
    ELSE getCoDevelopedByFrom(n + 1, processEnv)

getCoDevelopedBy(processEnv) == getCoDevelopedByFrom(1, processEnv)

(***************************************************************************)
(* Identifier Generator                                                    *)
(***************************************************************************)

HexDigits == "0123456789abcdef"

\* Printable ASCII in code order: codes 32 (space) to 95 (_), and codes 97
\* (a) to 126 (~).  Code 96 cannot be written in a TLA+ string and is left
\* out of the alphabet.
AsciiLow  == " !\"#$%&'()*+,-./0123456789:;<=>?@ABCDEFGHIJKLMNOPQRSTUVWXYZ[\\]^_"
AsciiHigh == "abcdefghijklmnopqrstuvwxyz{|}~"

\* Character code of every character of the alphabet.
charCodes ==
    [c \in CharsOf(AsciiLow) \cup CharsOf(AsciiHigh) \cup {"\t", "\n", "\f", "\r"} |->
        IF c = "\t" THEN 9
        ELSE IF c = "\n" THEN 10
        ELSE IF c = "\f" THEN 12
        ELSE IF c = "\r" THEN 13
        ELSE IF \E i \in 1..Len(AsciiLow) : charAt(AsciiLow, i) = c
        THEN 31 + (CHOOSE i \in 1..Len(AsciiLow) : charAt(AsciiLow, i) = c)
        ELSE 96 + (CHOOSE i \in 1..Len(AsciiHigh) : charAt(AsciiHigh, i) = c)]

\* String.prototype.charCodeAt for a one-character string.
charCodeAt(c) == charCodes[c]

\* Number.prototype.toString(10) for a natural number.
RECURSIVE numToString(_)
numToString(n) ==
    IF n < 10 THEN charAt(DigitChars, n + 1)
    ELSE numToString(n \div 10) \o charAt(DigitChars, (n % 10) + 1)

\* Number.prototype.toString(16) for a natural number.
RECURSIVE toHex(_)
toHex(n) ==
    IF n < 16 THEN charAt(HexDigits, n + 1)
    ELSE toHex(n \div 16) \o charAt(HexDigits, (n % 16) + 1)

\* String.prototype.padStart(width, '0'), for widths up to 40.
padStart(s, width) ==
    slice("0000000000000000000000000000000000000000", 1, width - Len(s)) \o s

\* getTimezoneOffsetString: offset is Date.getTimezoneOffset(), in minutes.
getTimezoneOffsetString(offset) ==
    LET absOffset == IF offset < 0 THEN -offset ELSE offset
        hours     == padStart(numToString(absOffset \div 60), 2)
        minutes   == padStart(numToString(absOffset % 60), 2)
    IN  (IF offset <= 0 THEN "+" ELSE "-") \o hours \o minutes

\* A Git subprocess that exited with status 0 and printed stdout, and one
\* that did not (non-zero status, or no status because git could not run).
Ok(stdout) == [status |-> 0, stdout |-> stdout, threw |-> FALSE]
Failed == [status |-> 1, stdout |-> "", threw |-> FALSE]

\* A spawnSync call that raised an exception instead of returning.
Threw == [status |-> 1, stdout |-> "", threw |-> TRUE]

\* Math.floor(now.getTime() / 1000) of a clock given as the decimal string of
\* the epoch milliseconds.
epochSeconds(nowMillis) == slice(nowMillis, 1, Len(nowMillis) - 3)

\* Faulty variant of genChangeIdInput: the committer line always carries
\* the time of the call.
genChangeIdInputStamped(message, git, clock) ==
    LET timestamp == epochSeconds(clock.millis)
        tzOffset  == getTimezoneOffsetString(clock.tzOffset)
        unknown   == "Unknown <unknown@example.com> " \o timestamp \o " " \o tzOffset
    IN  IF \/ git.writeTree.status # 0
           \/ git.writeTree.threw \/ git.revParseHead.threw
           \/ git.authorIdent.threw \/ git.committerIdent.threw
        THEN [threw |-> TRUE, input |-> ""]
        ELSE [threw |-> FALSE,
              input |-> "tree " \o trim(git.writeTree.stdout) \o "\n"
                        \o (IF git.revParseHead.status = 0
                                /\ trim(git.revParseHead.stdout) # ""
                            THEN "parent " \o trim(git.revParseHead.stdout) \o "\n"
                            ELSE "")
                        \o "author "
                        \o (IF git.authorIdent.status = 0
                            THEN trim(git.authorIdent.stdout) ELSE unknown)
                        \o "\n"
                        \o "committer " \o unknown \o "\n\n"
                        \o message]

\* _gen_ChangeIdInput: [threw |-> TRUE] when write-tree fails or a
\* subprocess call raises, else the commit-object-shaped input.
genChangeIdInput(message, git, clock) ==
    LET timestamp == epochSeconds(clock.millis)
        tzOffset  == getTimezoneOffsetString(clock.tzOffset)
        unknown   == "Unknown <unknown@example.com> " \o timestamp \o " " \o tzOffset
    IN  IF \/ git.writeTree.status # 0
           \/ git.writeTree.threw \/ git.revParseHead.threw
           \/ git.authorIdent.threw \/ git.committerIdent.threw
        THEN [threw |-> TRUE, input |-> ""]
        ELSE LET tree      == trim(git.writeTree.stdout)
                 parent    == IF git.revParseHead.status = 0
                              THEN trim(git.revParseHead.stdout) ELSE ""
                 author    == IF git.authorIdent.status = 0
                              THEN trim(git.authorIdent.stdout) ELSE unknown
                 committer == IF git.committerIdent.status = 0
                              THEN trim(git.committerIdent.stdout) ELSE unknown
             IN  [threw |-> FALSE,
                  input |-> "tree " \o tree \o "\n"
                            \o (IF parent # "" THEN "parent " \o parent \o "\n" ELSE "")
                            \o "author " \o author \o "\n"
                            \o "committer " \o committer \o "\n\n"
                            \o message]

\* A polynomial checksum of the characters of a short piece, continuing h.
RECURSIVE checksumPiece(_, _)
checksumPiece(piece, h) ==
    IF piece = "" \/ h < 0 THEN h
    ELSE checksumPiece(Tail(piece), (h * 31 + charCodeAt(Head(piece))) % 65521)

\* The checksum of s continuing h, taken sixteen characters at a time.
RECURSIVE checksum(_, _)
checksum(s, h) ==
    IF s = "" \/ h < 0 THEN h
    ELSE checksum(substringFrom(s, 16), checksumPiece(slice(s, 1, 16), h))

\* The digest "git hash-object -t commit --stdin" prints: 40 lowercase hex
\* digits that depend on the input only.  SHA-1 itself is outside the
\* program; the checksum of all characters of the input stands for it.
gitHashObject(input) == padStart(toHex(checksum(input, 7)), 40)

\* 32-bit words are pairs <<high 16 bits, low 16 bits>>.
W16 == 65536

\* XOR of two 4-bit numbers: xorNibble[x + 1][y + 1] = x XOR y.
xorNibble ==
    << << 0,  1,  2,  3,  4,  5,  6,  7,  8,  9, 10, 11, 12, 13, 14, 15>>,
       << 1,  0,  3,  2,  5,  4,  7,  6,  9,  8, 11, 10, 13, 12, 15, 14>>,
       << 2,  3,  0,  1,  6,  7,  4,  5, 10, 11,  8,  9, 14, 15, 12, 13>>,
       << 3,  2,  1,  0,  7,  6,  5,  4, 11, 10,  9,  8, 15, 14, 13, 12>>,
       << 4,  5,  6,  7,  0,  1,  2,  3, 12, 13, 14, 15,  8,  9, 10, 11>>,
       << 5,  4,  7,  6,  1,  0,  3,  2, 13, 12, 15, 14,  9,  8, 11, 10>>,
       << 6,  7,  4,  5,  2,  3,  0,  1, 14, 15, 12, 13, 10, 11,  8,  9>>,
       << 7,  6,  5,  4,  3,  2,  1,  0, 15, 14, 13, 12, 11, 10,  9,  8>>,
       << 8,  9, 10, 11, 12, 13, 14, 15,  0,  1,  2,  3,  4,  5,  6,  7>>,
       << 9,  8, 11, 10, 13, 12, 15, 14,  1,  0,  3,  2,  5,  4,  7,  6>>,
       <<10, 11,  8,  9, 14, 15, 12, 13,  2,  3,  0,  1,  6,  7,  4,  5>>,
       <<11, 10,  9,  8, 15, 14, 13, 12,  3,  2,  1,  0,  7,  6,  5,  4>>,
       <<12, 13, 14, 15,  8,  9, 10, 11,  4,  5,  6,  7,  0,  1,  2,  3>>,
       <<13, 12, 15, 14,  9,  8, 11, 10,  5,  4,  7,  6,  1,  0,  3,  2>>,
       <<14, 15, 12, 13, 10, 11,  8,  9,  6,  7,  4,  5,  2,  3,  0,  1>>,
       <<15, 14, 13, 12, 11, 10,  9,  8,  7,  6,  5,  4,  3,  2,  1,  0>> >>

\* XOR of a 16-bit half word with a character code below 256.
xorCode(half, code) ==
    (half \div 256) * 256
    + 16 * xorNibble[((half \div 16) % 16) + 1][(code \div 16) + 1]
    + xorNibble[(half % 16) + 1][(code % 16) + 1]

add32(x, y) ==
    LET lo == x[2] + y[2] IN
    << (x[1] + y[1] + (lo \div W16)) % W16, lo % W16 >>

neg32(x) == IF x = <<0, 0>> THEN x ELSE add32(<<W16 - 1 - x[1], W16 - 1 - x[2]>>, <<0, 1>>)

geq32(x, y) == x[1] > y[1] \/ (x[1] = y[1] /\ x[2] >= y[2])

\* low rounded to a multiple of unit, ties to the even multiple.
roundTo(low, unit) ==
    IF \/ 2 * (low[2] % unit) > unit
       \/ (2 * (low[2] % unit) = unit /\ (low[2] \div unit) % 2 = 1)
    THEN add32(<<low[1], low[2] - (low[2] % unit)>>, <<0, unit>>)
    ELSE <<low[1], low[2] - (low[2] % unit)>>

\* a * 16777619 as JavaScript computes it, modulo 2^32, for 0 <= a <= 2^31.
\* 16777619 = 2^24 + 403, so the low 32 bits of the exact product are
\* a * 403 + (a mod 2^8) * 2^24.  The product is an IEEE double: beyond
\* 2^53 (resp. 2^54, 2^55) its last 1 (resp. 2, 3) bits are rounded away,
\* which happens from a = 536858017 (resp. 1073716033, 2147432066) on.
timesPrime(a) ==
    roundTo(add32(add32(<<(a[2] * 403) \div W16, (a[2] * 403) % W16>>,
                        <<(a[1] * 403) % W16, 0>>),
                  <<(a[2] % 256) * 256, 0>>),
            IF geq32(a, <<32767, 13954>>) THEN 8
            ELSE IF geq32(a, <<16383, 39745>>) THEN 4
            ELSE IF geq32(a, <<8191, 52641>>) THEN 2
            ELSE 1)

\* u, the signed 32-bit result of the XOR, times the prime, reduced by >>> 0.
signedTimesPrime(u) ==
    IF u[1] >= 32768 THEN neg32(timesPrime(neg32(u))) ELSE timesPrime(u)

\* One round of the fallback loop: hash ^= code; hash *= 16777619;
\* hash >>>= 0.
fnvRound(hash, code) == signedTimesPrime(<<hash[1], xorCode(hash[2], code)>>)

\* The rounds for the characters of a short piece of the content.
RECURSIVE fnvPiece(_, _)
fnvPiece(piece, hash) ==
    IF piece = "" \/ hash[1] < 0 THEN hash
    ELSE fnvPiece(Tail(piece), fnvRound(hash, charCodeAt(Head(piece))))

\* The fallback loop over contentToHash, taken sixteen characters at a time
\* (the same rounds in the same order; only the evaluation is shallower).
RECURSIVE fnvLoop(_, _)
fnvLoop(contentToHash, hash) ==
    IF contentToHash = "" \/ hash[1] < 0 THEN hash
    ELSE fnvLoop(substringFrom(contentToHash, 16),
                 fnvPiece(slice(contentToHash, 1, 16), hash))

\* hash.toString(16) of a 32-bit word.
toHex32(x) == IF x[1] = 0 THEN toHex(x[2]) ELSE toHex(x[1]) \o padStart(toHex(x[2]), 4)

\* Faulty variant of fallbackChangeId: the digits are not padded.
fallbackChangeIdUnpadded(message, clock) ==
    "I" \o toHex32(fnvLoop(message \o "\n" \o clock.millis \o "\n", <<33052, 40389>>))

\* The fallback of generateChangeId.
fallbackChangeId(message, clock) ==
    LET contentToHash == message \o "\n" \o clock.millis \o "\n"
        hash          == fnvLoop(contentToHash, <<33052, 40389>>)   \* 2166136261
        hex           == padStart(toHex32(hash), 32)
    IN  "I" \o (IF Len(hex) > 32 THEN slice(hex, 1, 32) ELSE hex)

\* The end of the try block of generateChangeId, given what hash-object
\* printed: "" stands for "go on to the fallback".
changeIdFromHash(stdout) == IF stdout # "" THEN "I" \o trim(stdout) ELSE ""

orElse(value, fallback) == IF value # "" THEN value ELSE fallback

generateChangeId(message, git, clock) ==
    IF \/ genChangeIdInput(message, git, clock).threw
       \/ git.hashObject # "ok"
    THEN fallbackChangeId(message, clock)
    ELSE orElse(changeIdFromHash(
                    gitHashObject(genChangeIdInput(message, git, clock).input)),
                fallbackChangeId(message, clock))

(***************************************************************************)
(* Trailer Engine                                                          *)
(***************************************************************************)

\* extractUserInfoFromTrailer: /^[a-zA-Z0-9-]+:\s*(.+)$/, then trim of the
\* group.  matched = FALSE stands for null.
extractUserInfoFromTrailer(line) ==
    LET keyLen == LeadingRun(line, KeyChars)
        rest   == substringFrom(line, keyLen + 1)
        spaces == LeadingRun(rest, WhiteSpace)
        \* \s* takes j characters and (.+) the others, which must be at
        \* least one character and hold no line terminator
        groupOk(j) == /\ j < Len(rest)
                      /\ \A i \in (j + 1)..Len(rest) :
                             charAt(rest, i) \notin LineTerminators
    IN  IF /\ keyLen >= 1
           /\ charAt(line, keyLen + 1) = ":"
           /\ \E j \in 0..spaces : groupOk(j)
        THEN [matched |-> TRUE, userInfo |-> trim(rest)]
        ELSE [matched |-> FALSE, userInfo |-> ""]

\* Faulty variant of keepTrailer: every Co-authored-by and Signed-off-by
\* line that parses is dropped, whatever its identity.
keepTrailerAnyIdentity(line, coDevelopedByUserInfo) ==
    LET isDuplicateTrailer == \/ lowerStartsWith(line, "co-authored-by:")
                              \/ lowerStartsWith(line, "signed-off-by:")
        extracted == extractUserInfoFromTrailer(line)
    IN  IF ~isDuplicateTrailer THEN TRUE
        ELSE ~extracted.matched \/ extracted.userInfo = ""

\* The predicate of the filter call in filterDuplicateTrailers.
keepTrailer(line, coDevelopedByUserInfo) ==
    LET isDuplicateTrailer == \/ lowerStartsWith(line, "co-authored-by:")
                              \/ lowerStartsWith(line, "signed-off-by:")
        extracted == extractUserInfoFromTrailer(line)
    IN  IF ~isDuplicateTrailer THEN TRUE
        ELSE IF ~extracted.matched \/ extracted.userInfo = "" THEN TRUE
        ELSE extracted.userInfo # coDevelopedByUserInfo

RECURSIVE filterLines(_, _)
filterLines(lines, coDevelopedByUserInfo) ==
    IF Len(lines) = 0 THEN <<>>
    ELSE (IF keepTrailer(lines[1], coDevelopedByUserInfo)
          THEN <<lines[1]>> ELSE <<>>)
         \o filterLines(Tail(lines), coDevelopedByUserInfo)

filterDuplicateTrailers(lines, coDevelopedBy) ==
    LET extracted == extractUserInfoFromTrailer("Co-developed-by: " \o coDevelopedBy)
    IN  IF ~extracted.matched \/ extracted.userInfo = ""
        THEN lines
        ELSE filterLines(lines, extracted.userInfo)

\* trailerRegex = /^[a-zA-Z0-9-]{1,64}: /
trailerRegex(line) ==
    LET keyLen == LeadingRun(line, KeyChars) IN
    /\ keyLen >= 1
    /\ keyLen <= 64
    /\ slice(line, keyLen + 1, keyLen + 2) = ": "

\* /^\[.+\]$/ and /^\(.+\)$/ for the given brackets
bracketRegex(line, open, close) ==
    /\ Len(line) >= 3
    /\ charAt(line, 1) = open
    /\ charAt(line, Len(line)) = close
    /\ \A i \in 2..(Len(line) - 1) : charAt(line, i) \notin LineTerminators

trailerCommentRegex1(line) == bracketRegex(line, "[", "]")

trailerCommentRegex2(line) == bracketRegex(line, "(", ")")

isTrailerComment(line) == trailerCommentRegex1(line) \/ trailerCommentRegex2(line)

\* A TrailerSpec is a function from a subset of {"ChangeId", "CoDevelopedBy"}
\* to strings; an absent and an empty field are both falsy.
truthy(trailers, field) == field \in DOMAIN trailers /\ trailers[field] # ""

\* Faulty variant of newTrailerLines: the two pushes are swapped.
newTrailerLinesCoDevelopedByFirst(trailers) ==
    (IF truthy(trailers, "CoDevelopedBy")
     THEN <<"Co-developed-by: " \o trailers["CoDevelopedBy"]>> ELSE <<>>)
    \o (IF truthy(trailers, "ChangeId")
        THEN <<"Change-Id: " \o trailers["ChangeId"]>> ELSE <<>>)

\* trailerLines of insertTrailers: Change-Id first.
newTrailerLines(trailers) ==
    (IF truthy(trailers, "ChangeId")
     THEN <<"Change-Id: " \o trailers["ChangeId"]>> ELSE <<>>)
    \o (IF truthy(trailers, "CoDevelopedBy")
        THEN <<"Co-developed-by: " \o trailers["CoDevelopedBy"]>> ELSE <<>>)

\* Faulty variant of scanLoop: at an empty line the buffered trailer
\* candidates are cleared without being moved to the output.
RECURSIVE scanLoopNoFlush(_, _, _, _, _)
scanLoopNoFlush(lines, i, outputLines, existingTrailers, inTrailerSection) ==
    IF i > Len(lines)
    THEN [outputLines |-> outputLines, existingTrailers |-> existingTrailers,
          inTrailerSection |-> inTrailerSection]
    ELSE LET line == lines[i] IN
         IF line = ""
         THEN scanLoopNoFlush(lines, i + 1, Append(outputLines, line), <<>>, TRUE)
         ELSE IF ~inTrailerSection
         THEN scanLoopNoFlush(lines, i + 1, Append(outputLines, line),
                              existingTrailers, inTrailerSection)
         ELSE IF trailerRegex(line) \/ isTrailerComment(line)
         THEN scanLoopNoFlush(lines, i + 1, outputLines,
                              Append(existingTrailers, line), inTrailerSection)
         ELSE scanLoopNoFlush(lines, i + 1,
                              Append(outputLines \o existingTrailers, line),
                              <<>>, FALSE)

\* Faulty variant of scanLoop: a line that is not a trailer does not end
\* the trailer section.
RECURSIVE scanLoopStayInSection(_, _, _, _, _)
scanLoopStayInSection(lines, i, outputLines, existingTrailers, inTrailerSection) ==
    IF i > Len(lines)
    THEN [outputLines |-> outputLines, existingTrailers |-> existingTrailers,
          inTrailerSection |-> inTrailerSection]
    ELSE LET line == lines[i] IN
         IF line = ""
         THEN scanLoopStayInSection(lines, i + 1,
                  Append(outputLines \o existingTrailers, line), <<>>, TRUE)
         ELSE IF ~inTrailerSection
         THEN scanLoopStayInSection(lines, i + 1, Append(outputLines, line),
                                    existingTrailers, inTrailerSection)
         ELSE IF trailerRegex(line) \/ isTrailerComment(line)
         THEN scanLoopStayInSection(lines, i + 1, outputLines,
                                    Append(existingTrailers, line), inTrailerSection)
         ELSE scanLoopStayInSection(lines, i + 1,
                  Append(outputLines \o existingTrailers, line), <<>>, TRUE)

\* The scan loop of insertTrailers from line i on: the lines put out, the
\* trailer candidates still held, and the mode, after the last line.
RECURSIVE scanLoop(_, _, _, _, _)
scanLoop(lines, i, outputLines, existingTrailers, inTrailerSection) ==
    IF i > Len(lines)
    THEN [outputLines |-> outputLines, existingTrailers |-> existingTrailers,
          inTrailerSection |-> inTrailerSection]
    ELSE LET line == lines[i] IN
         IF line = ""
         THEN scanLoop(lines, i + 1,
                       Append(outputLines \o existingTrailers, line), <<>>, TRUE)
         ELSE IF ~inTrailerSection
         THEN scanLoop(lines, i + 1, Append(outputLines, line),
                       existingTrailers, inTrailerSection)
         ELSE IF trailerRegex(line) \/ isTrailerComment(line)
         THEN scanLoop(lines, i + 1, outputLines,
                       Append(existingTrailers, line), inTrailerSection)
         ELSE scanLoop(lines, i + 1,
                       Append(outputLines \o existingTrailers, line), <<>>, FALSE)

\* Faulty variant of firstNonComment: the first entry, comment-trailer or
\* not.
firstEntry(filteredTrailers) == IF Len(filteredTrailers) > 0 THEN 1 ELSE 0

\* Index (from 1) of the first entry that is not a comment-trailer, 0 if none.
firstNonComment(filteredTrailers) ==
    IF \E i \in 1..Len(filteredTrailers) : ~isTrailerComment(filteredTrailers[i])
    THEN CHOOSE i \in 1..Len(filteredTrailers) :
             /\ ~isTrailerComment(filteredTrailers[i])
             /\ \A j \in 1..(i - 1) : isTrailerComment(filteredTrailers[j])
    ELSE 0

\* Faulty variant of insertTrailersLines: without a trailer block the new
\* trailers are appended with no blank line before them.
insertTrailersLinesNoSeparator(message, trailers) ==
    LET trailerLines == newTrailerLines(trailers)
        scan == scanLoop(split(message), 1, <<>>, <<>>, FALSE)
    IN  IF Len(scan.existingTrailers) > 0
        THEN LET filteredTrailers ==
                     IF truthy(trailers, "CoDevelopedBy")
                     THEN filterDuplicateTrailers(scan.existingTrailers,
                                                  trailers["CoDevelopedBy"])
                     ELSE scan.existingTrailers
                 first == firstNonComment(filteredTrailers)
             IN  IF first = 0
                 THEN scan.outputLines \o filteredTrailers \o trailerLines
                 ELSE LET at == IF startsWith(filteredTrailers[first], "Change-Id:")
                                THEN first + 1 ELSE first
                      IN  scan.outputLines
                          \o SubSeq(filteredTrailers, 1, at - 1)
                          \o trailerLines
                          \o SubSeq(filteredTrailers, at, Len(filteredTrailers))
        ELSE scan.outputLines \o trailerLines

\* insertTrailers, on the list of output lines.
\* Faulty variant of insertTrailersLines: an existing Change-Id at the
\* insertion point is replaced by the new trailers instead of kept.
insertTrailersLinesReplacingChangeId(message, trailers) ==
    LET trailerLines == newTrailerLines(trailers)
        scan == scanLoop(split(message), 1, <<>>, <<>>, FALSE)
        outputLines == scan.outputLines
        existingTrailers == scan.existingTrailers
    IN  IF Len(existingTrailers) > 0
        THEN LET filteredTrailers ==
                     IF truthy(trailers, "CoDevelopedBy")
                     THEN filterDuplicateTrailers(existingTrailers,
                                                  trailers["CoDevelopedBy"])
                     ELSE existingTrailers
                 first == firstNonComment(filteredTrailers)
             IN  IF first = 0
                 THEN outputLines \o filteredTrailers \o trailerLines
                 ELSE LET at == IF startsWith(filteredTrailers[first], "Change-Id:")
                                THEN first + 1 ELSE first
                      IN  outputLines
                          \o SubSeq(filteredTrailers, 1, first - 1)
                          \o trailerLines
                          \o SubSeq(filteredTrailers, at, Len(filteredTrailers))
        ELSE IF Len(trailerLines) > 0
        THEN outputLines \o <<"">> \o trailerLines
        ELSE outputLines

insertTrailersLines(message, trailers) ==
    LET trailerLines == newTrailerLines(trailers)
        scan == scanLoop(split(message), 1, <<>>, <<>>, FALSE)
        outputLines == scan.outputLines
        existingTrailers == scan.existingTrailers
    IN  IF Len(existingTrailers) > 0
        THEN LET filteredTrailers ==
                     IF truthy(trailers, "CoDevelopedBy")
                     THEN filterDuplicateTrailers(existingTrailers,
                                                  trailers["CoDevelopedBy"])
                     ELSE existingTrailers
                 first == firstNonComment(filteredTrailers)
             IN  IF first = 0
                 THEN outputLines \o filteredTrailers \o trailerLines
                 ELSE LET at == IF startsWith(filteredTrailers[first], "Change-Id:")
                                THEN first + 1 ELSE first
                      IN  outputLines
                          \o SubSeq(filteredTrailers, 1, at - 1)
                          \o trailerLines
                          \o SubSeq(filteredTrailers, at, Len(filteredTrailers))
        ELSE IF Len(trailerLines) > 0
        THEN outputLines \o <<"">> \o trailerLines
        ELSE outputLines

insertTrailers(message, trailers) == join(insertTrailersLines(message, trailers))

(***************************************************************************)
(* Pipeline Orchestrator                                                   *)
(***************************************************************************)

\* The trailers object processCommitMessage builds for a cleaned message: a
\* field is present when it holds a string, absent when it is undefined.
trailersFor(cleanedMessage, config, processEnv, git, clock) ==
    LET generated == IF config.createChangeId
                     THEN {"ChangeId"} ELSE {}
        resolved  == IF config.createCoDevelopedBy
                     THEN {"CoDevelopedBy"} ELSE {}
        dropped   == (IF ~needsChangeId(cleanedMessage, config.createChangeId)
                      THEN {"ChangeId"} ELSE {})
                     \cup
                     (IF ~needsCoDevelopedBy(cleanedMessage,
                                             config.createCoDevelopedBy)
                      THEN {"CoDevelopedBy"} ELSE {})
    IN  [f \in (generated \cup resolved) \ dropped |->
            IF f = "ChangeId"
            THEN generateChangeId(cleanedMessage, git, clock)
            ELSE getCoDevelopedBy(processEnv)]

\* Faulty variant of processCommitMessage: after inserting trailers it
\* returns the normalizer's shouldSave instead of true.
processCommitMessageKeepFlag(content, config, processEnv, git, clock) ==
    IF trim(content) = ""
    THEN [message |-> "", shouldSave |-> FALSE]
    ELSE LET cleaned == cleanCommitMessage(content, config.commentChar)
             trailers == trailersFor(cleaned.message, config, processEnv,
                                     git, clock)
         IN  IF trim(cleaned.message) = ""
             THEN [message |-> "", shouldSave |-> FALSE]
             ELSE IF /\ ~truthy(trailers, "CoDevelopedBy")
                     /\ ~truthy(trailers, "ChangeId")
             THEN cleaned
             ELSE [message |-> insertTrailers(cleaned.message, trailers),
                   shouldSave |-> cleaned.shouldSave]

\* Faulty variant of processCommitMessage: without trailers to insert,
\* shouldSave is set whenever cleaning changed the message.
processCommitMessageSaveOnChange(content, config, processEnv, git, clock) ==
    IF trim(content) = ""
    THEN [message |-> "", shouldSave |-> FALSE]
    ELSE LET cleaned == cleanCommitMessage(content, config.commentChar)
             trailers == trailersFor(cleaned.message, config, processEnv,
                                     git, clock)
         IN  IF trim(cleaned.message) = ""
             THEN [message |-> "", shouldSave |-> FALSE]
             ELSE IF /\ ~truthy(trailers, "CoDevelopedBy")
                     /\ ~truthy(trailers, "ChangeId")
             THEN [message |-> cleaned.message,
                   shouldSave |-> cleaned.message # content]
             ELSE [message |-> insertTrailers(cleaned.message, trailers),
                   shouldSave |-> TRUE]

processCommitMessage(content, config, processEnv, git, clock) ==
    IF trim(content) = ""
    THEN [message |-> "", shouldSave |-> FALSE]
    ELSE LET cleaned == cleanCommitMessage(content, config.commentChar)
             cleanedMessage == cleaned.message
         IN  IF trim(cleanedMessage) = ""
             THEN [message |-> "", shouldSave |-> FALSE]
             ELSE LET trailers == trailersFor(cleanedMessage, config,
                                              processEnv, git, clock)
                  IN  IF /\ ~truthy(trailers, "CoDevelopedBy")
                         /\ ~truthy(trailers, "ChangeId")
                      THEN [message |-> cleanedMessage,
                            shouldSave |-> cleaned.shouldSave]
                      ELSE [message |-> insertTrailers(cleanedMessage, trailers),
                            shouldSave |-> TRUE]

(***************************************************************************)
(* Git configuration, merge detection and the hook entry point             *)
(***************************************************************************)

stringToBoolean(value) ==
    LET lowerValue == toLowerCase(value) IN
    lowerValue \in {"true", "yes", "on", "1"}

defaultConfig ==
    [createChangeId |-> TRUE, commentChar |-> "#", createCoDevelopedBy |-> TRUE]

\* Faulty variant of configLoop: the lines are read from the last to the
\* first, so that the first entry of a key wins.
RECURSIVE configLoopFirstWins(_, _, _)
configLoopFirstWins(configLines, i, config) ==
    IF i > Len(configLines) THEN config
    ELSE LET line       == configLines[Len(configLines) + 1 - i]
             equalIndex == indexOf(line, "=")
             key        == toLowerCase(slice(line, 1, equalIndex))
             value      == substringFrom(line, equalIndex + 1)
         IN  IF equalIndex = -1 THEN configLoopFirstWins(configLines, i + 1, config)
             ELSE IF key \in {"gerrit.createchangeid", "commit-msg.changeid",
                              "commitmsg.changeid"}
             THEN configLoopFirstWins(configLines, i + 1,
                      [config EXCEPT !.createChangeId = stringToBoolean(value)])
             ELSE IF key = "core.commentchar" /\ value # ""
             THEN configLoopFirstWins(configLines, i + 1,
                      [config EXCEPT !.commentChar = value])
             ELSE IF key \in {"commit-msg.codevelopedby", "commitmsg.codevelopedby"}
             THEN configLoopFirstWins(configLines, i + 1,
                      [config EXCEPT !.createCoDevelopedBy = stringToBoolean(value)])
             ELSE configLoopFirstWins(configLines, i + 1, config)

\* The loop of getGitConfig over the lines of "git config --list".
RECURSIVE configLoop(_, _, _)
configLoop(configLines, i, config) ==
    IF i > Len(configLines) THEN config
    ELSE LET line       == configLines[i]
             equalIndex == indexOf(line, "=")
             key        == toLowerCase(slice(line, 1, equalIndex))
             value      == substringFrom(line, equalIndex + 1)
         IN  IF equalIndex = -1 THEN configLoop(configLines, i + 1, config)
             ELSE IF key \in {"gerrit.createchangeid", "commit-msg.changeid",
                              "commitmsg.changeid"}
             THEN configLoop(configLines, i + 1,
                      [config EXCEPT !.createChangeId = stringToBoolean(value)])
             ELSE IF key = "core.commentchar" /\ value # ""
             THEN configLoop(configLines, i + 1,
                      [config EXCEPT !.commentChar = value])
             ELSE IF key \in {"commit-msg.codevelopedby", "commitmsg.codevelopedby"}
             THEN configLoop(configLines, i + 1,
                      [config EXCEPT !.createCoDevelopedBy = stringToBoolean(value)])
             ELSE configLoop(configLines, i + 1, config)

\* getGitConfig, given the outcome of "git config --list --includes".
getGitConfig(configResult) ==
    IF configResult.threw THEN defaultConfig
    ELSE IF configResult.status = 0 /\ configResult.stdout # ""
    THEN configLoop(split(trim(configResult.stdout)), 1, defaultConfig)
    ELSE defaultConfig

\* path.basename for a POSIX path without trailing slash.
RECURSIVE basename(_)
basename(path) ==
    IF indexOf(path, "/") = -1 THEN path
    ELSE basename(substringFrom(path, indexOf(path, "/") + 1))

\* parents.length in isMergeCommit: non-empty lines of the trimmed output.
parentCount(stdout) ==
    LET lines == split(trim(stdout)) IN
    Cardinality({i \in 1..Len(lines) : Len(lines[i]) > 0})

\* Faulty variant of isMergeCommit: the first line of the message is not
\* looked at.
isMergeCommitByNameOrParents(file, git) ==
    IF basename(file.path) = "MERGE_MSG" THEN TRUE
    ELSE IF git.writeTree.threw \/ git.writeTree.status # 0 THEN FALSE
    ELSE IF git.headTree.threw \/ git.headTree.status # 0 THEN FALSE
    ELSE IF /\ git.headTree.stdout # ""
            /\ trim(git.headTree.stdout) # trim(git.writeTree.stdout)
    THEN FALSE
    ELSE IF git.parents.threw THEN FALSE
    ELSE IF git.parents.status = 0 /\ git.parents.stdout # ""
    THEN parentCount(git.parents.stdout) >= 2
    ELSE FALSE

\* Faulty variant of isMergeCommit: a Git query that fails or raises makes
\* the commit a merge.
isMergeCommitFailClosed(file, git) ==
    IF basename(file.path) = "MERGE_MSG" THEN TRUE
    ELSE IF file.exists /\ startsWith(trim(split(file.content)[1]), "Merge ")
    THEN TRUE
    ELSE IF git.writeTree.threw \/ git.writeTree.status # 0 THEN TRUE
    ELSE IF git.headTree.threw \/ git.headTree.status # 0 THEN TRUE
    ELSE IF /\ git.headTree.stdout # ""
            /\ trim(git.headTree.stdout) # trim(git.writeTree.stdout)
    THEN FALSE
    ELSE IF git.parents.threw THEN TRUE
    ELSE IF git.parents.status = 0 /\ git.parents.stdout # ""
    THEN parentCount(git.parents.stdout) >= 2
    ELSE TRUE

\* isMergeCommit.  file is [path, exists, content].
isMergeCommit(file, git) ==
    IF basename(file.path) = "MERGE_MSG" THEN TRUE
    ELSE IF file.exists /\ startsWith(trim(split(file.content)[1]), "Merge ")
    THEN TRUE
    ELSE IF git.writeTree.threw THEN FALSE
    ELSE IF git.writeTree.status # 0 THEN FALSE
    ELSE IF git.headTree.threw THEN FALSE
    ELSE IF git.headTree.status # 0 THEN FALSE
    ELSE IF /\ git.headTree.stdout # ""
            /\ trim(git.headTree.stdout) # trim(git.writeTree.stdout)
    THEN FALSE
    ELSE IF git.parents.threw THEN FALSE
    ELSE IF git.parents.status = 0 /\ git.parents.stdout # ""
    THEN parentCount(git.parents.stdout) >= 2
    ELSE FALSE

\* exec: what one run of the hook does to the message file.
\*   outcome  "exit" (debug argument), "error" (exception), "merge"
\*            (skipped), "saved", "unchanged"
\*   content  the file content afterwards
hookSkipped(outcome, file) ==
    [outcome |-> outcome, content |-> file.content, configRead |-> FALSE,
     processed |-> FALSE, wrote |-> FALSE,
     result |-> [message |-> "", shouldSave |-> FALSE]]

\* Faulty variant of hookProcessed: the returned message is written
\* whatever shouldSave is.
hookProcessedAlwaysWrites(file, res) ==
    [outcome |-> "saved", content |-> res.message,
     configRead |-> TRUE, processed |-> TRUE, wrote |-> TRUE,
     result |-> res]

\* The end of exec, given what processCommitMessage returned: the file is
\* written when shouldSave is true.
hookProcessed(file, res) ==
    IF res.shouldSave
    THEN [outcome |-> "saved", content |-> res.message,
          configRead |-> TRUE, processed |-> TRUE, wrote |-> TRUE,
          result |-> res]
    ELSE [outcome |-> "unchanged", content |-> file.content,
          configRead |-> TRUE, processed |-> TRUE, wrote |-> FALSE,
          result |-> res]

hookRun(file, git, processEnv, clock) ==
    IF file.path = "DEBUG_MODE_TEST" THEN hookSkipped("exit", file)
    ELSE IF ~file.exists THEN hookSkipped("error", file)
    ELSE IF isMergeCommit(file, git) THEN hookSkipped("merge", file)
    ELSE hookProcessed(file,
             processCommitMessage(file.content, getGitConfig(git.configList),
                                  processEnv, git, clock))

(***************************************************************************)
(* State                                                                   *)
(***************************************************************************)

VARIABLES
    messageContent,  \* the message the next call is given
    trailers,        \* the TrailerSpec the next insertTrailers call is given
    config,          \* the GitConfig processCommitMessage is given
    processEnv,      \* process.env: variable name -> value, for the set ones
    git,             \* outcome of each Git subprocess the code spawns
    clock,           \* new Date(): epoch milliseconds (decimal) and zone offset
    file,            \* the message file: [path, exists, content]
    calls            \* the calls made so far, oldest first

vars == <<messageContent, trailers, config, processEnv, git, clock, file, calls>>

(***************************************************************************)
(* Bounds and input sets                                                   *)
(***************************************************************************)

\* Longest raw message, in lines, given to processCommitMessage or stored in
\* the message file.
MaxLines == 3

\* Longest message, in lines, given to insertTrailers directly.
MaxTrailerLines == 4

\* Number of successive calls in one behaviour.
MaxCalls == 2

\* Environment variables set at once.
MaxEnvVars == 2

\* Entries of a Git config listing.
MaxConfigLines == 3

\* All messages of 1..n lines over a pool of lines.
Messages(pool, n) ==
    {join(lines) : lines \in UNION {[1..k -> pool] : k \in 1..n}}

ClaudeIdentity == "Claude <noreply@anthropic.com>"

\* Raw lines for the trailer decisions: subject and body text, a blank line,
\* a temporary-commit subject, an attribution line of the resolved identity,
\* a valid and an invalid Change-Id line, a co-developed-by line.
PipelineLines ==
    { "", "feat: x", "body ", "fixup! feat: x",
      "Signed-off-by: " \o ClaudeIdentity, "Change-Id: I1a2b",
      "Change-Id: 1a2b", "co-developed-by: Bob <b@x.io>" }

\* Raw lines for the normalizer: blank and whitespace-only lines, comments
\* under either comment character, a diff header, attribution lines, and a
\* scissors line for each of the two comment characters.
NormalizerLines ==
    { "", " \t", "feat: x", "body ", "# note", "fixup! feat: x",
      "diff --git a b", "Signed-off-by: A <a@x.io>", "# - >8 -", ";8<" }

\* Lines of messages given to insertTrailers: body text, a blank line, a
\* comment-trailer, attribution lines of two identities, a Change-Id.
TrailerLines ==
    { "", "body", "[note]", "(cc)", "Signed-off-by: A <a@x.io>",
      "Co-authored-by: B <b@x.io>", "Change-Id: I1a2b" }

\* Lines of the message file when the hook runs.
FileLines ==
    { "", "Merge branch 'dev'", " Merge tag v1", "feat: x", "body",
      "fixup! feat: x" }

NoEnv == [k \in {} |-> ""]

ClaudeEnv == [k \in {"CLAUDECODE"} |-> "1"]

\* Git answers every query (hashes abbreviated); the index differs from HEAD.
GitOk ==
    [writeTree      |-> Ok("4b825dc\n"),
     revParseHead   |-> Ok("9fceb02\n"),
     authorIdent    |-> Ok("A <a@x.io> 1700000000 +0800\n"),
     committerIdent |-> Ok("C <c@x.io> 1700000000 +0800\n"),
     hashObject     |-> "ok",
     headTree       |-> Ok("7d5e21a\n"),
     parents        |-> Ok("1f7a7a4\n"),
     configList     |-> Failed]

GitNoHash == [GitOk EXCEPT !.hashObject = "fail"]

\* Amending HEAD (same tree) when HEAD has one parent, and when it has two.
GitAmend == [GitOk EXCEPT !.headTree = Ok("4b825dc\n")]

GitAmendMerge == [GitAmend EXCEPT !.parents = Ok("1f7a7a4\n2c8b8b5\n")]

GitNoTree == [GitOk EXCEPT !.writeTree = Failed]

\* A repository without any commit: the index can be written, HEAD cannot
\* be resolved.
GitEmptyRepo ==
    [GitOk EXCEPT !.revParseHead = Failed, !.headTree = Failed, !.parents = Failed]

\* Git cannot be started for one of the queries of isMergeCommit.
GitTreeThrew == [GitOk EXCEPT !.writeTree = Threw]

GitHeadTreeThrew == [GitOk EXCEPT !.headTree = Threw]

\* Amending HEAD when its parents cannot be listed.
GitNoParents == [GitAmend EXCEPT !.parents = Failed]

GitParentsThrew == [GitAmend EXCEPT !.parents = Threw]

GitConfigured ==
    [GitOk EXCEPT !.configList =
        Ok("user.name=A\ncommit-msg.codevelopedby=false\ncore.commentchar=;\n")]

GitConfig(createChangeId, commentChar, createCoDevelopedBy) ==
    [createChangeId |-> createChangeId, commentChar |-> commentChar,
     createCoDevelopedBy |-> createCoDevelopedBy]

\* Configuration, environment and Git state a behaviour runs under.
Setups ==
    { [config |-> GitConfig(TRUE, "#", TRUE), processEnv |-> ClaudeEnv, git |-> GitOk],
      [config |-> GitConfig(TRUE, "#", TRUE), processEnv |-> NoEnv, git |-> GitOk],
      [config |-> GitConfig(FALSE, "#", TRUE), processEnv |-> ClaudeEnv, git |-> GitOk],
      [config |-> GitConfig(FALSE, "#", FALSE), processEnv |-> ClaudeEnv, git |-> GitOk],
      [config |-> GitConfig(TRUE, "C", TRUE), processEnv |-> ClaudeEnv, git |-> GitOk] }

NormalizerSetups ==
    { [config |-> GitConfig(TRUE, "#", TRUE), processEnv |-> ClaudeEnv, git |-> GitOk],
      [config |-> GitConfig(FALSE, "#", FALSE), processEnv |-> NoEnv, git |-> GitOk],
      [config |-> GitConfig(FALSE, ";", TRUE), processEnv |-> NoEnv, git |-> GitOk] }

TrailerSpecs ==
    { [f \in {} |-> ""],
      [f \in {"ChangeId"} |-> "I9f"],
      [f \in {"CoDevelopedBy"} |-> "A <a@x.io>"],
      [f \in {"ChangeId", "CoDevelopedBy"} |->
          IF f = "ChangeId" THEN "I9f" ELSE "A <a@x.io>"],
      [f \in {"ChangeId", "CoDevelopedBy"} |->
          IF f = "ChangeId" THEN "I9f" ELSE ""] }

\* The clock at the n-th call (from 0): time moves on between calls.
clockAt(n) ==
    [millis |-> "17000000" \o padStart(numToString(n * 1234 + 123), 5),
     tzOffset |-> -480]

NoTrailers == [f \in {} |-> ""]

NoFile == [path |-> "", exists |-> FALSE, content |-> ""]

(***************************************************************************)
(* The pipeline: processCommitMessage called on a raw message, then again  *)
(* on the message it returned                                              *)
(***************************************************************************)

InitPipeline(lines, setups) ==
    /\ messageContent \in Messages(lines, MaxLines)
    /\ trailers = NoTrailers
    /\ \E s \in setups : /\ config = s.config
                         /\ processEnv = s.processEnv
                         /\ git = s.git
    /\ clock = clockAt(0)
    /\ file = NoFile
    /\ calls = <<>>

Init == InitPipeline(PipelineLines, Setups)

InitNormalizer == InitPipeline(NormalizerLines, NormalizerSetups)

CallProcess ==
    /\ Len(calls) < MaxCalls
    /\ calls' = Append(calls,
                       [input  |-> messageContent,
                        result |-> processCommitMessage(messageContent, config,
                                                        processEnv, git, clock)])
    /\ messageContent' = calls'[Len(calls')].result.message
    /\ clock' = clockAt(Len(calls) + 1)
    /\ UNCHANGED <<trailers, config, processEnv, git, file>>

Next == CallProcess

Spec == Init /\ [][Next]_vars

SpecNormalizer == InitNormalizer /\ [][Next]_vars

(***************************************************************************)
(* The trailer engine: insertTrailers called on a message and a TrailerSpec *)
(***************************************************************************)

InitTrailers ==
    /\ messageContent \in Messages(TrailerLines, MaxTrailerLines)
    /\ trailers \in TrailerSpecs
    /\ config = defaultConfig
    /\ processEnv = NoEnv
    /\ git = GitOk
    /\ clock = clockAt(0)
    /\ file = NoFile
    /\ calls = <<>>

CallInsertTrailers ==
    /\ Len(calls) < 1
    /\ LET out == insertTrailers(messageContent, trailers)
       IN  /\ calls' = Append(calls, [input |-> messageContent, output |-> out])
           /\ messageContent' = out
    /\ UNCHANGED <<trailers, config, processEnv, git, clock, file>>

NextTrailers == CallInsertTrailers

SpecTrailers == InitTrailers /\ [][NextTrailers]_vars

(***************************************************************************)
(* insertTrailers with a Change-Id on messages that end with tags or with  *)
(* lines that look like trailers                                           *)
(***************************************************************************)

\* Lines of those messages: a subject, a blank line, the tags Bug and
\* Depends-On, a "Solution:" line, a dash-leading token, a comment-trailer.
PlacementLines ==
    { "", "subject", "Bug: 12", "Depends-On: I1a2b", "Solution: free text",
      "-Foo: bar", "[note]" }

InitPlacement ==
    /\ messageContent \in Messages(PlacementLines, MaxTrailerLines)
    /\ trailers \in {spec \in TrailerSpecs : truthy(spec, "ChangeId")}
    /\ config = defaultConfig
    /\ processEnv = NoEnv
    /\ git = GitOk
    /\ clock = clockAt(0)
    /\ file = NoFile
    /\ calls = <<>>

SpecPlacement == InitPlacement /\ [][NextTrailers]_vars

(***************************************************************************)
(* The environment: variables are set, cleared, and getCoDevelopedBy is    *)
(* called                                                                  *)
(***************************************************************************)

\* The variables the rules and the AI tool descriptions name.
EnvKeys ==
    { "CLAUDECODE", "IFLOW_CLI", "QWEN_CODE", "GEMINI_CLI", "CURSOR_TRACE_ID",
      "__CFBundleIdentifier", "VSCODE_BRAND", "VSCODE_GIT_ASKPASS_MAIN",
      "BROWSER", "CODEX_MANAGED_BY_NPM", "CODEX_MANAGED_BY_BUN" }

\* Values a variable is given: the expected one, near misses, the sentinels
\* of the wildcard rule.
EnvValues(key) ==
    IF key = "CURSOR_TRACE_ID" THEN {"", "0", "false", "no", "any-value"}
    ELSE IF key = "__CFBundleIdentifier"
    THEN {"dev.kiro.desktop", "com.qoder.ide", "com.apple.Terminal"}
    ELSE IF key = "VSCODE_BRAND" THEN {"Qoder", "Other"}
    ELSE IF key \in {"VSCODE_GIT_ASKPASS_MAIN", "BROWSER"}
    THEN {"/h/.cursor-server/a.js", "/h/.qoder-server/a.js", "/usr/bin/a"}
    ELSE {"1", "0"}

InitEnv ==
    /\ processEnv = NoEnv
    /\ messageContent = ""
    /\ trailers = NoTrailers
    /\ config = defaultConfig
    /\ git = GitOk
    /\ clock = clockAt(0)
    /\ file = NoFile
    /\ calls = <<>>

\* process.env[key] = value, before getCoDevelopedBy is called.
SetEnv ==
    /\ calls = <<>>
    /\ Cardinality(DOMAIN processEnv) < MaxEnvVars
    /\ \E key \in EnvKeys \ DOMAIN processEnv : \E value \in EnvValues(key) :
           processEnv' = [k \in DOMAIN processEnv \cup {key} |->
                             IF k = key THEN value ELSE processEnv[k]]
    /\ UNCHANGED <<messageContent, trailers, config, git, clock, file, calls>>

ClearEnv ==
    /\ calls = <<>>
    /\ processEnv' = clearCoDevelopedByEnvVars(processEnv)
    /\ UNCHANGED <<messageContent, trailers, config, git, clock, file, calls>>

CallGetCoDevelopedBy ==
    /\ Len(calls) < 1
    /\ calls' = Append(calls, [env      |-> processEnv,
                               identity |-> getCoDevelopedBy(processEnv)])
    /\ UNCHANGED <<messageContent, trailers, config, processEnv, git, clock, file>>

NextEnv == SetEnv \/ ClearEnv \/ CallGetCoDevelopedBy

SpecEnv == InitEnv /\ [][NextEnv]_vars

(***************************************************************************)
(* The configuration: getGitConfig reads the listing of "git config"       *)
(***************************************************************************)

\* Entries of a listing: the alias keys with truthy and falsy values, an
\* entry without value, and other keys.
ConfigLines ==
    { "gerrit.createchangeid=false", "gerrit.createchangeid=On",
      "commit-msg.changeid=YES", "commit-msg.changeid=no",
      "commitmsg.changeid=1", "commitmsg.changeid=2", "commitmsg.changeid",
      "commit-msg.codevelopedby=false", "commit-msg.codevelopedby=",
      "commitmsg.codevelopedby=True", "core.commentchar=;", "user.name=A" }

\* Outcomes of "git config --list --includes": a listing, each entry ended
\* by a line feed, a failure, or an exception of spawnSync.
ConfigResults ==
    {Ok(join(lines) \o "\n") :
        lines \in UNION {[1..n -> ConfigLines] : n \in 1..MaxConfigLines}}
        \cup {Ok(""), Failed, Threw}

InitConfig ==
    /\ git \in {[GitOk EXCEPT !.configList = configResult] :
                    configResult \in ConfigResults}
    /\ config = defaultConfig
    /\ messageContent = ""
    /\ trailers = NoTrailers
    /\ processEnv = NoEnv
    /\ clock = clockAt(0)
    /\ file = NoFile
    /\ calls = <<>>

CallGetGitConfig ==
    /\ Len(calls) < 1
    /\ config' = getGitConfig(git.configList)
    /\ calls' = Append(calls, [configResult |-> git.configList,
                               config       |-> config'])
    /\ UNCHANGED <<messageContent, trailers, processEnv, git, clock, file>>

NextConfig == CallGetGitConfig

SpecConfig == InitConfig /\ [][NextConfig]_vars

(***************************************************************************)
(* The id generator: generateChangeId called again and again on the same   *)
(* message and the same Git state                                          *)
(***************************************************************************)

GeneratorMessages == {"", "feat: x", "feat: x\n\nbody", "fixup! feat: x\n"}

\* What a Git subprocess can do: print its answer, exit with an error, or
\* not be started at all.
Outcomes(stdout) == {Ok(stdout), Failed, Threw}

\* Every combination of outcomes of the five Git primitives of the id
\* generator; HEAD may also be missing (no parent).
GeneratorGits ==
    {[GitOk EXCEPT !.writeTree = w, !.revParseHead = p, !.authorIdent = a,
                   !.committerIdent = c, !.hashObject = h] :
        w \in Outcomes(GitOk.writeTree.stdout),
        p \in Outcomes(GitOk.revParseHead.stdout),
        a \in Outcomes(GitOk.authorIdent.stdout),
        c \in Outcomes(GitOk.committerIdent.stdout),
        h \in {"ok", "fail", "throw"}}

InitGenerator ==
    /\ messageContent \in GeneratorMessages
    /\ git \in GeneratorGits
    /\ clock = clockAt(0)
    /\ config = defaultConfig
    /\ trailers = NoTrailers
    /\ processEnv = NoEnv
    /\ file = NoFile
    /\ calls = <<>>

CallGenerateChangeId ==
    /\ Len(calls) < MaxCalls
    /\ calls' = Append(calls,
                       [message  |-> messageContent,
                        git      |-> git,
                        clock    |-> clock,
                        changeId |-> generateChangeId(messageContent, git, clock)])
    /\ clock' = clockAt(Len(calls) + 1)
    /\ UNCHANGED <<messageContent, trailers, config, processEnv, git, file>>

NextGenerator == CallGenerateChangeId

SpecGenerator == InitGenerator /\ [][NextGenerator]_vars

(***************************************************************************)
(* The hook: exec run on the message file                                  *)
(***************************************************************************)

MessageFiles ==
    {[path |-> p, exists |-> TRUE, content |-> c] :
        p \in {".git/COMMIT_EDITMSG", ".git/MERGE_MSG"},
        c \in Messages(FileLines, MaxLines)}
    \cup {[path |-> ".git/COMMIT_EDITMSG", exists |-> FALSE, content |-> ""],
          [path |-> ".git/MERGE_MSG", exists |-> FALSE, content |-> ""],
          [path |-> "DEBUG_MODE_TEST", exists |-> FALSE, content |-> ""]}

InitExec ==
    /\ file \in MessageFiles
    /\ messageContent = ""
    /\ trailers = NoTrailers
    /\ config = defaultConfig
    /\ processEnv = ClaudeEnv
    /\ git \in {GitOk, GitNoHash, GitAmend, GitAmendMerge, GitNoTree, GitConfigured,
                GitEmptyRepo, GitTreeThrew, GitHeadTreeThrew, GitNoParents,
                GitParentsThrew}
    /\ clock = clockAt(0)
    /\ calls = <<>>

Exec ==
    /\ Len(calls) < MaxCalls
    /\ calls' = Append(calls, [file |-> file,
                               run  |-> hookRun(file, git, processEnv, clock)])
    /\ file' = [file EXCEPT !.content = calls'[Len(calls')].run.content]
    /\ clock' = clockAt(Len(calls) + 1)
    /\ UNCHANGED <<messageContent, trailers, config, processEnv, git>>

NextExec == Exec

SpecExec == InitExec /\ [][NextExec]_vars

(***************************************************************************)
(* Vocabulary of the properties                                            *)
(*                                                                         *)
(* The properties speak of the latest call of a behaviour: every earlier   *)
(* call was the latest one in an earlier state.                            *)
(***************************************************************************)

Made == Len(calls) >= 1

Last == calls[Len(calls)]

\* Positions of the lines that begin with "Change-Id:".
ChangeIdAt(lines) ==
    {i \in 1..Len(lines) : startsWith(lines[i], "Change-Id:")}

\* "Change-Id: I" followed by lower-case hexadecimal digits only.
IsValidChangeIdLine(line) ==
    /\ startsWith(line, "Change-Id: I")
    /\ Len(line) > Len("Change-Id: I")
    /\ CharsOf(substringFrom(line, Len("Change-Id: I"))) \subseteq HexChars

\* Positions of the lines that begin with "Co-developed-by:", in that very
\* letter case, and in any letter case.
ExactCoDevelopedByAt(lines) ==
    {i \in 1..Len(lines) : startsWith(lines[i], "Co-developed-by:")}

CoDevelopedByAt(lines) ==
    {i \in 1..Len(lines) : lowerStartsWith(lines[i], "co-developed-by:")}

\* The cleaned form of a raw message under the configuration in force.
Cleaned(message) == cleanCommitMessage(message, config.commentChar).message

\* At most one Change-Id line, a valid one, and at most one Co-developed-by
\* line (any letter case).
TrailersAtMostOnce(lines) ==
    /\ Cardinality(ChangeIdAt(lines)) <= 1
    /\ \A i \in ChangeIdAt(lines) : IsValidChangeIdLine(lines[i])
    /\ Cardinality(CoDevelopedByAt(lines)) <= 1

\* The first line, leading white space aside, starts with "fixup!" or
\* "squash!".
IsTemporary(message) ==
    LET firstLine == trim(split(message)[1]) IN
    startsWith(firstLine, "fixup!") \/ startsWith(firstLine, "squash!")

BothEnabled == config.createChangeId /\ config.createCoDevelopedBy

Identity == getCoDevelopedBy(processEnv)

\* Two runs were made, the second on the message the first returned, with
\* both trailers enabled and an identity resolved.
RanTwice == Len(calls) >= 2 /\ BothEnabled /\ Identity # ""

Previous == calls[Len(calls) - 1]

\* A raw message, given its cleaned form, that is non-empty after cleaning
\* and not a temporary commit.
Ordinary(cleaned) == trim(cleaned) # "" /\ ~IsTemporary(cleaned)

\* No line of the message starts with the comment character: the next
\* cleaning takes none of its lines for a comment.
NoCommentLine(message) ==
    LET lines == split(message) IN
    \A i \in 1..Len(lines) : ~startsWith(lines[i], config.commentChar)

\* The second run changed nothing and inserted nothing.
SecondRunIsNoOp ==
    /\ Last.result.message = Previous.result.message
    /\ Last.result.message = Cleaned(Last.input)

(***************************************************************************)
(* C1  Idempotence of the pipeline                                         *)
(***************************************************************************)

\* C1 (as claimed): for a raw message that is non-empty after cleaning and
\* not a temporary commit, with both trailers enabled and an identity
\* resolved, the message of the second run has exactly one Change-Id line and
\* exactly one Co-developed-by line, and the second run is a no-op.
C1_IdempotentExactlyOne ==
    RanTwice =>
        LET outLines == split(Last.result.message) IN
        Ordinary(Cleaned(Previous.input)) =>
            /\ Cardinality(ChangeIdAt(outLines)) = 1
            /\ Cardinality(CoDevelopedByAt(outLines)) = 1
            /\ SecondRunIsNoOp

\* C1 (amended): in the same scenario, when the comment character begins no
\* line of the message of the first run (it does not begin the inserted
\* trailer lines), the second run is a no-op and its message has at least
\* one Change-Id line and at least one Co-developed-by line (any letter
\* case); it has exactly one of each when the cleaned raw message had at
\* most one Change-Id line, a valid one, and at most one Co-developed-by
\* line.
C1_Idempotent ==
    RanTwice =>
        LET cleaned  == Cleaned(Previous.input)
            outLines == split(Last.result.message)
        IN  (Ordinary(cleaned) /\ NoCommentLine(Previous.result.message)) =>
                /\ SecondRunIsNoOp
                /\ Cardinality(ChangeIdAt(outLines)) >= 1
                /\ Cardinality(CoDevelopedByAt(outLines)) >= 1
                /\ TrailersAtMostOnce(split(cleaned)) =>
                       /\ Cardinality(ChangeIdAt(outLines)) = 1
                       /\ Cardinality(CoDevelopedByAt(outLines)) = 1

\* C1 witness: two runs made on a message with body and a duplicate
\* attribution line; the first run inserted both trailers, once each, and
\* the second returned the same message.
C1_Witness ==
    /\ Len(calls) = 2
    /\ BothEnabled /\ Identity # ""
    /\ calls[1].input = "feat: x\nbody \nSigned-off-by: " \o ClaudeIdentity
    /\ calls[1].result.shouldSave
    /\ calls[1].result.message # Cleaned(calls[1].input)
    /\ Cardinality(ChangeIdAt(split(calls[1].result.message))) = 1
    /\ Cardinality(ExactCoDevelopedByAt(split(calls[1].result.message))) = 1
    /\ calls[2].result.message = calls[1].result.message

(***************************************************************************)
(* C2  At most one Change-Id and one Co-developed-by line                  *)
(***************************************************************************)

\* C2 (as claimed): whatever the input, the configuration and the
\* environment, the returned message has at most one line beginning with
\* "Change-Id:" and at most one beginning with "Co-developed-by:".
C2_AtMostOneWhateverInput ==
    Made =>
        LET outLines == split(Last.result.message) IN
        /\ Cardinality(ChangeIdAt(outLines)) <= 1
        /\ Cardinality(ExactCoDevelopedByAt(outLines)) <= 1

\* C2 (amended): when the cleaned input has at most one Change-Id line, a
\* valid one, and at most one Co-developed-by line (any letter case), the
\* returned message has at most one of each, under every configuration and
\* environment.
C2_AtMostOne ==
    Made =>
        LET outLines == split(Last.result.message) IN
        TrailersAtMostOnce(split(Cleaned(Last.input))) =>
            /\ Cardinality(ChangeIdAt(outLines)) <= 1
            /\ Cardinality(CoDevelopedByAt(outLines)) <= 1

\* C2 witness: the input already had a Co-developed-by line in lower case
\* and both trailers are enabled with an identity; a Change-Id was added and
\* no second Co-developed-by.
C2_Witness ==
    /\ Len(calls) = 1
    /\ BothEnabled /\ Identity # ""
    /\ calls[1].input = "feat: x\nco-developed-by: Bob <b@x.io>"
    /\ Cardinality(ChangeIdAt(split(calls[1].result.message))) = 1
    /\ CoDevelopedByAt(split(calls[1].result.message)) = {4}

(***************************************************************************)
(* C10  An existing Change-Id is kept                                      *)
(***************************************************************************)

\* Some line is a valid Change-Id line.
HasValidChangeIdLine(lines) ==
    \E i \in 1..Len(lines) : IsValidChangeIdLine(lines[i])

\* The Change-Id lines, in order.
ChangeIdTexts(lines) ==
    SelectSeq(lines, LAMBDA line : startsWith(line, "Change-Id:"))

\* Some line is "Co-developed-by: <identity>".
HasIdentityLine(lines) ==
    \E i \in 1..Len(lines) : lines[i] = "Co-developed-by: " \o Identity

\* A Co-developed-by is requested for a cleaned message: enabled by
\* configuration, an identity resolved from the environment, the commit not
\* temporary and no Co-developed-by line (any letter case) there yet.
CoDevelopedByRequested(cleaned) ==
    /\ config.createCoDevelopedBy
    /\ Identity # ""
    /\ ~IsTemporary(cleaned)
    /\ CoDevelopedByAt(split(cleaned)) = {}

\* C10 (as claimed): for every input with a line "Change-Id: I<hex>" the
\* returned message keeps that line, has exactly one line beginning with
\* "Change-Id:", and has the requested Co-developed-by inserted.
C10_ExistingChangeIdAnyInput ==
    Made =>
        LET outLines == split(Last.result.message) IN
        HasValidChangeIdLine(split(Last.input)) =>
            /\ HasValidChangeIdLine(outLines)
            /\ Cardinality(ChangeIdAt(outLines)) = 1
            /\ CoDevelopedByRequested(Cleaned(Last.input)) =>
                   HasIdentityLine(outLines)

\* C10 (amended): when the cleaned input has exactly one line beginning with
\* "Change-Id:" and it is a valid one, the returned message has that line,
\* unchanged, as its only Change-Id line, and the requested Co-developed-by
\* is inserted.
C10_ExistingChangeId ==
    Made =>
        LET cleaned  == Cleaned(Last.input)
            inLines  == split(cleaned)
            outLines == split(Last.result.message)
        IN  (/\ Cardinality(ChangeIdAt(inLines)) = 1
             /\ HasValidChangeIdLine(inLines)) =>
                /\ ChangeIdTexts(outLines) = ChangeIdTexts(inLines)
                /\ CoDevelopedByRequested(cleaned) =>
                       /\ HasIdentityLine(outLines)
                       /\ Cardinality(CoDevelopedByAt(outLines)) = 1

\* C10 witness: the input has a valid Change-Id after the body; it is kept,
\* no other is generated although Change-Id creation is enabled, and the
\* Co-developed-by is inserted.
C10_Witness ==
    /\ Len(calls) = 1
    /\ BothEnabled /\ Identity # ""
    /\ calls[1].input = "feat: x\nbody \nChange-Id: I1a2b"
    /\ ChangeIdTexts(split(calls[1].result.message)) = <<"Change-Id: I1a2b">>
    /\ HasIdentityLine(split(calls[1].result.message))

(***************************************************************************)
(* C4  Emptiness law                                                       *)
(***************************************************************************)

\* Every line is white space only, or starts with the comment character, or
\* starts with "Signed-off-by:".
OnlyBlankCommentOrSignedOff(lines, commentChar) ==
    \A i \in 1..Len(lines) :
        \/ CharsOf(lines[i]) \subseteq WhiteSpace
        \/ startsWith(lines[i], commentChar)
        \/ startsWith(lines[i], "Signed-off-by:")

\* The three kinds of line occur.
MixesBlankCommentAndSignedOff(lines, commentChar) ==
    /\ \E i \in 1..Len(lines) : CharsOf(lines[i]) \subseteq WhiteSpace
    /\ \E i \in 1..Len(lines) : startsWith(lines[i], commentChar)
    /\ \E i \in 1..Len(lines) : startsWith(lines[i], "Signed-off-by:")

\* C4: an input made only of white space, comment lines and Signed-off-by
\* lines, in any mix, yields the message "" with shouldSave false, under
\* every configuration.
C4_EmptinessLaw ==
    Made =>
        (OnlyBlankCommentOrSignedOff(split(Last.input), config.commentChar) =>
            Last.result = [message |-> "", shouldSave |-> FALSE])

\* C4 witness: a comment, a white-space line and a Signed-off-by line
\* together, processed with both trailers enabled.
C4_Witness ==
    /\ Len(calls) = 1
    /\ BothEnabled
    /\ OnlyBlankCommentOrSignedOff(split(calls[1].input), config.commentChar)
    /\ MixesBlankCommentAndSignedOff(split(calls[1].input), config.commentChar)
    /\ calls[1].result.message = ""

(***************************************************************************)
(* C6  shouldSave = false means the cleaned form                           *)
(***************************************************************************)

\* C6: whenever shouldSave is false the returned message is exactly the
\* output of cleanCommitMessage on the same input.
C6_UnsavedIsCleaned ==
    Made =>
        (~Last.result.shouldSave => Last.result.message = Cleaned(Last.input))

\* C6 witness: cleaning removed a comment and trailing white space, nothing
\* was inserted, and shouldSave is false.
C6_Witness ==
    /\ Len(calls) = 1
    /\ calls[1].input = "feat: x\n# note\n \t"
    /\ ~calls[1].result.shouldSave
    /\ calls[1].result.message = "feat: x"

(***************************************************************************)
(* C9  Temporary commits                                                   *)
(***************************************************************************)

\* The first line of the message starts with "fixup!" or "squash!".
StartsAsTemporary(message) ==
    LET firstLine == split(message)[1] IN
    startsWith(firstLine, "fixup!") \/ startsWith(firstLine, "squash!")

\* Position in the raw lines of the first line the normalizer keeps when it
\* reaches it: not a comment and not blank.
SubjectIndex(lines, commentChar) ==
    CHOOSE i \in 1..Len(lines) :
        /\ ~startsWith(lines[i], commentChar)
        /\ trimEnd(lines[i]) # ""
        /\ \A j \in 1..(i - 1) :
               startsWith(lines[j], commentChar) \/ trimEnd(lines[j]) = ""

\* In the raw message the subject is the last line or the line after it is
\* blank.
SubjectAloneOrSeparated(message, commentChar) ==
    LET lines == split(message)
        at    == SubjectIndex(lines, commentChar)
    IN  \/ at = Len(lines)
        \/ /\ trimEnd(lines[at + 1]) = ""
           /\ ~startsWith(lines[at + 1], commentChar)

\* C9: when the first line of the cleaned message starts with "fixup!" or
\* "squash!", the returned message is exactly the cleaned message, hence
\* without any added Change-Id or Co-developed-by line, under every
\* configuration and environment; shouldSave is false when the subject is
\* the only line or is already followed by a blank line.
C9_TemporaryCommit ==
    Made =>
        LET cleaned == Cleaned(Last.input) IN
        StartsAsTemporary(cleaned) =>
                /\ Last.result.message = cleaned
                /\ SubjectAloneOrSeparated(Last.input, config.commentChar) =>
                       ~Last.result.shouldSave

\* C9 witness: a fixup commit whose subject is followed by a blank line and
\* a body, processed with both trailers enabled and an identity resolved.
C9_Witness ==
    /\ Len(calls) = 1
    /\ BothEnabled /\ Identity # ""
    /\ calls[1].input = "fixup! feat: x\n\nbody "
    /\ calls[1].result = [message |-> "fixup! feat: x\n\nbody", shouldSave |-> FALSE]

(***************************************************************************)
(* Vocabulary of the trailer-engine properties                             *)
(***************************************************************************)

\* Position of the last empty line of a list of lines, 0 if there is none.
LastBlank(lines) ==
    LET blanks == {i \in 1..Len(lines) : lines[i] = ""} IN
    IF blanks = {} THEN 0 ELSE CHOOSE i \in blanks : \A j \in blanks : j <= i

\* A trailer "Key: value" or a bracketed comment-trailer.
IsTrailerShaped(line) == trailerRegex(line) \/ isTrailerComment(line)

\* The lines end with a trailer block: after the last empty line there is at
\* least one line and all of them are trailer-shaped.
HasTrailerBlock(lines) ==
    LET blank == LastBlank(lines) IN
    /\ blank > 0
    /\ blank < Len(lines)
    /\ \A j \in (blank + 1)..Len(lines) : IsTrailerShaped(lines[j])

\* Positions of the lines of the trailing trailer block.
TrailerBlock(lines) ==
    IF HasTrailerBlock(lines) THEN (LastBlank(lines) + 1)..Len(lines) ELSE {}

\* A Co-authored-by or Signed-off-by line (any letter case).
IsAttribution(line) ==
    \/ lowerStartsWith(line, "co-authored-by:")
    \/ lowerStartsWith(line, "signed-off-by:")

\* The identity an attribution line names: what follows the first colon,
\* white space around it aside.
IdentityOf(line) == trim(substringFrom(line, indexOf(line, ":") + 1))

\* An attribution line for the given, non-empty, identity; neither holds a
\* line terminator.
Attributes(line, identity) ==
    /\ IsAttribution(line)
    /\ trim(identity) # ""
    /\ (CharsOf(line) \cup CharsOf(identity)) \cap LineTerminators = {}
    /\ IdentityOf(line) = trim(identity)

\* The lines at the given positions, in order.
LinesAt(lines, positions) ==
    LET keep[i \in 0..Len(lines)] ==
            IF i = 0 THEN <<>>
            ELSE IF i \in positions THEN Append(keep[i - 1], lines[i])
            ELSE keep[i - 1]
    IN  keep[Len(lines)]

\* The lines insertTrailers is asked to add, Change-Id first.
RequestedLines(spec) ==
    (IF "ChangeId" \in DOMAIN spec /\ spec["ChangeId"] # ""
     THEN <<"Change-Id: " \o spec["ChangeId"]>> ELSE <<>>)
    \o (IF "CoDevelopedBy" \in DOMAIN spec /\ spec["CoDevelopedBy"] # ""
        THEN <<"Co-developed-by: " \o spec["CoDevelopedBy"]>> ELSE <<>>)

\* The Co-developed-by value being inserted, "" if none.
InsertedIdentity ==
    IF "CoDevelopedBy" \in DOMAIN trailers THEN trailers["CoDevelopedBy"] ELSE ""

\* Positions of the input lines that deduplication removes: attribution
\* lines of the trailing trailer block for the identity being inserted.
Deduplicated(lines) ==
    IF InsertedIdentity = "" THEN {}
    ELSE {i \in TrailerBlock(lines) : Attributes(lines[i], InsertedIdentity)}

(***************************************************************************)
(* C3  Dedup law                                                           *)
(***************************************************************************)

\* C3 (as claimed): when the message has, at any position, an attribution
\* line for the identity being inserted as Co-developed-by, the output has
\* no attribution line for that identity and keeps those of every other
\* identity.
C3_DedupAnywhere ==
    (Made /\ InsertedIdentity # "") =>
        LET inLines  == split(Last.input)
            outLines == split(Last.output)
        IN  (\E i \in 1..Len(inLines) : Attributes(inLines[i], InsertedIdentity)) =>
                /\ \A i \in 1..Len(outLines) : ~Attributes(outLines[i], InsertedIdentity)
                /\ SelectSeq(outLines, IsAttribution)
                   = SelectSeq(inLines,
                               LAMBDA l : IsAttribution(l) /\ ~Attributes(l, InsertedIdentity))

\* C3 (amended): when the trailing trailer block of the message has an
\* attribution line for the identity being inserted as Co-developed-by, the
\* trailing trailer block of the output has no attribution line for that
\* identity, and every other attribution line of the message is retained, in
\* order: those of other identities and those outside the trailing trailer
\* block.
C3_DedupInTrailerBlock ==
    (Made /\ InsertedIdentity # "") =>
        LET inLines  == split(Last.input)
            outLines == split(Last.output)
            removed  == Deduplicated(inLines)
        IN  removed # {} =>
                /\ \A i \in TrailerBlock(outLines) :
                       ~Attributes(outLines[i], InsertedIdentity)
                /\ SelectSeq(outLines, IsAttribution)
                   = SelectSeq(LinesAt(inLines, (1..Len(inLines)) \ removed),
                               IsAttribution)

\* C3 witness: the trailing block holds an attribution line of the inserted
\* identity and one of another identity; the first is gone, the second kept.
C3_Witness ==
    /\ Len(calls) = 1
    /\ InsertedIdentity = "A <a@x.io>"
    /\ calls[1].input = "body\n\nSigned-off-by: A <a@x.io>\nCo-authored-by: B <b@x.io>"
    /\ calls[1].output = "body\n\nCo-developed-by: A <a@x.io>\nCo-authored-by: B <b@x.io>"

(***************************************************************************)
(* C7  insertTrailers keeps the existing content in order                  *)
(***************************************************************************)

\* The input lines that stay, followed by the blank separator when there was
\* no trailer block and something is inserted.
Retained(lines) ==
    LinesAt(lines, (1..Len(lines)) \ Deduplicated(lines))
    \o (IF ~HasTrailerBlock(lines) /\ RequestedLines(trailers) # <<>>
        THEN <<"">> ELSE <<>>)

\* Number of leading lines outside the trailing trailer block.
OutsideBlock(lines) ==
    IF HasTrailerBlock(lines) THEN LastBlank(lines) ELSE Len(lines)

\* C7: the output is the input lines, in their order and without the lines
\* deduplication removes, with the new trailer lines inserted in one place
\* (after one blank separator when there was no trailer block); every line
\* outside the trailing trailer block keeps its position.
C7_NoReordering ==
    Made =>
        LET inLines  == split(Last.input)
            outLines == split(Last.output)
            kept     == Retained(inLines)
            new      == RequestedLines(trailers)
            outside  == OutsideBlock(inLines)
        IN  /\ \E at \in outside..Len(kept) :
                   outLines = SubSeq(kept, 1, at) \o new \o SubSeq(kept, at + 1, Len(kept))
            /\ \A i \in 1..outside : outLines[i] = inLines[i]

\* C7 witness: body text, then a trailer block with a duplicate attribution
\* line and another one; both trailers are inserted inside the block, before
\* the line that stays.
C7_Witness ==
    /\ Len(calls) = 1
    /\ calls[1].input = "body\n\nSigned-off-by: A <a@x.io>\nCo-authored-by: B <b@x.io>"
    /\ calls[1].output = "body\n\nChange-Id: I9f\nCo-developed-by: A <a@x.io>\nCo-authored-by: B <b@x.io>"

(***************************************************************************)
(* C8  Change-Id before Co-developed-by                                    *)
(***************************************************************************)

\* C8: when both trailers are requested, the new Change-Id line is in the
\* output exactly once and the line right after it is the new
\* Co-developed-by line, whatever the shape of the message.
C8_ChangeIdFirst ==
    (Made /\ truthy(trailers, "ChangeId") /\ truthy(trailers, "CoDevelopedBy")) =>
        LET outLines == split(Last.output)
            ids      == {i \in 1..Len(outLines) :
                            outLines[i] = "Change-Id: " \o trailers["ChangeId"]}
        IN  /\ Cardinality(ids) = 1
            /\ \A i \in ids :
                   /\ i < Len(outLines)
                   /\ outLines[i + 1] = "Co-developed-by: " \o trailers["CoDevelopedBy"]

\* C8 witness: both requested on a message whose trailer block is a
\* comment-trailer and an existing Change-Id; the new lines follow it,
\* Change-Id first.
C8_Witness ==
    /\ Len(calls) = 1
    /\ truthy(trailers, "ChangeId") /\ truthy(trailers, "CoDevelopedBy")
    /\ calls[1].input = "body\n\n[note]\nChange-Id: I1a2b"
    /\ calls[1].output = "body\n\n[note]\nChange-Id: I1a2b\nChange-Id: I9f\nCo-developed-by: A <a@x.io>"

(***************************************************************************)
(* C5  Merge short-circuit                                                 *)
(***************************************************************************)

\* The message file is named MERGE_MSG.
NamedMergeMsg(f) == f.path = "MERGE_MSG" \/ endsWith(f.path, "/MERGE_MSG")

\* The first line of the file starts with "Merge ".
StartsWithMerge(f) == f.exists /\ startsWith(split(f.content)[1], "Merge ")

\* C5: when the message file is named MERGE_MSG or its first line starts
\* with "Merge ", exec reads no configuration, does not run the pipeline and
\* does not write: the file content is unchanged, with no Change-Id or
\* Co-developed-by line added; when the file exists exec returns normally.
C5_MergeShortCircuit ==
    Made =>
        LET f   == Last.file
            run == Last.run
        IN  (NamedMergeMsg(f) \/ StartsWithMerge(f)) =>
                /\ ~run.configRead /\ ~run.processed /\ ~run.wrote
                /\ run.content = f.content
                /\ file.content = f.content
                /\ ChangeIdAt(split(file.content)) = ChangeIdAt(split(f.content))
                /\ CoDevelopedByAt(split(file.content)) = CoDevelopedByAt(split(f.content))
                /\ f.exists => run.outcome = "merge"

\* C5 witness: an ordinary message file whose first line starts with
\* "Merge ", in a repository where the index differs from HEAD, so that only
\* the first line makes it a merge; the hook left it alone.
C5_Witness ==
    /\ Len(calls) = 1
    /\ git = GitOk
    /\ calls[1].file.path = ".git/COMMIT_EDITMSG"
    /\ calls[1].file.content = "Merge branch 'dev'\n\nbody"
    /\ calls[1].run.outcome = "merge"
    /\ file.content = "Merge branch 'dev'\n\nbody"

(***************************************************************************)
(* C11  Subject/body spacing                                               *)
(***************************************************************************)

\* The cleaned line list of a raw message: processedLines once the trailing
\* blank lines are popped.
CleanedLines(message) == cleanLines(message, config.commentChar)

\* The second line of a list of at least two lines is not blank.
SecondLineNotBlank(lines) == Len(lines) >= 2 /\ lines[2] # ""

\* Some line is neither blank nor a Signed-off-by line.
HasContent(lines) ==
    \E i \in 1..Len(lines) :
        /\ trim(lines[i]) # ""
        /\ ~lowerStartsWith(trim(lines[i]), "signed-off-by:")

\* The list with one blank line inserted after its first line.
SpacedOut(lines) == join(<<lines[1], "">> \o Tail(lines))

\* cleanCommitMessage inserted the blank line and asks for a save, and so
\* does processCommitMessage.
BlankLineInsertedAndSaved ==
    /\ cleanCommitMessage(Last.input, config.commentChar)
       = [message |-> SpacedOut(CleanedLines(Last.input)), shouldSave |-> TRUE]
    /\ Last.result.shouldSave

\* C11 (as claimed): whenever the cleaned line list has at least two lines
\* and its second line is not blank, cleanCommitMessage inserts one blank
\* line after the first line and returns shouldSave true, and so does
\* processCommitMessage, even with both trailers disabled.
C11_SpacingAnyLines ==
    Made =>
        (SecondLineNotBlank(CleanedLines(Last.input)) => BlankLineInsertedAndSaved)

\* C11 (amended): the same, when some line of the cleaned line list is
\* neither blank nor a Signed-off-by line.
C11_Spacing ==
    Made =>
        ((/\ SecondLineNotBlank(CleanedLines(Last.input))
          /\ HasContent(CleanedLines(Last.input))) => BlankLineInsertedAndSaved)

\* C11 witness: subject directly followed by body, both trailers disabled;
\* the blank line is inserted and the result is to be saved.
C11_Witness ==
    /\ Len(calls) = 1
    /\ ~config.createChangeId /\ ~config.createCoDevelopedBy
    /\ calls[1].input = "feat: x\nbody "
    /\ calls[1].result = [message |-> "feat: x\n\nbody", shouldSave |-> TRUE]

(***************************************************************************)
(* C12  Truncation at the scissors line and at the diff                    *)
(***************************************************************************)

\* A comment line that, without the comment prefix and the white space and
\* dashes around the rest, is exactly ">8" or "8<".
IsScissors(line) ==
    /\ startsWith(line, config.commentChar)
    /\ LET rest == substringFrom(line, Len(config.commentChar))
           junk == WhiteSpace \cup {"-"}
           core == StripTrailing(StripLeading(rest, junk), junk)
       IN  core \in {">8", "8<"}

\* Position of the first scissors line or line starting with "diff --git ",
\* one past the end if there is none.
CutAt(lines) ==
    LET cuts == {i \in 1..Len(lines) :
                    IsScissors(lines[i]) \/ startsWith(lines[i], "diff --git ")}
    IN  IF cuts = {} THEN Len(lines) + 1
        ELSE CHOOSE i \in cuts : \A j \in cuts : i <= j

\* The content lines before the cut: neither comments nor blank, without
\* their trailing white space, in order.
ContentBeforeCut(lines) ==
    LET keep[i \in 0..(CutAt(lines) - 1)] ==
            IF i = 0 THEN <<>>
            ELSE IF startsWith(lines[i], config.commentChar) \/ trimEnd(lines[i]) = ""
            THEN keep[i - 1]
            ELSE Append(keep[i - 1], trimEnd(lines[i]))
    IN  keep[CutAt(lines) - 1]

\* The non-blank lines of a message, in order.
NonBlankLines(message) ==
    IF message = "" THEN <<>>
    ELSE SelectSeq(split(message), LAMBDA line : line # "")

\* C12: the output of cleanCommitMessage has nothing from the first scissors
\* line or "diff --git " line onward, and otherwise loses only comment
\* lines: its non-blank lines are the content lines before the cut, or it
\* is empty when those are all Signed-off-by lines.
C12_Truncation ==
    Made =>
        LET content == ContentBeforeCut(split(Last.input))
            cleaned == Cleaned(Last.input)
        IN  IF HasContent(content)
            THEN NonBlankLines(cleaned) = content
            ELSE cleaned = ""

\* C12 witness: the subject, a scissors line and a line after it; only the
\* subject is left.
C12_Witness ==
    /\ Len(calls) = 1
    /\ config.commentChar = "#"
    /\ ~config.createChangeId /\ ~config.createCoDevelopedBy
    /\ calls[1].input = "feat: x\n# - >8 -\nbody "
    /\ Cleaned(calls[1].input) = "feat: x"
    /\ calls[1].result.message = "feat: x"

(***************************************************************************)
(* C13  Change-Id after the tags Bug and Depends-On                        *)
(***************************************************************************)

\* Positions of the Change-Id line insertTrailers was asked to insert.
NewChangeIdAt(lines) ==
    {i \in 1..Len(lines) : lines[i] = "Change-Id: " \o trailers["ChangeId"]}

\* The trailing trailer block of the lines starts with a Bug or Depends-On
\* trailer.
BlockStartsWithTag(lines) ==
    /\ HasTrailerBlock(lines)
    /\ \/ startsWith(lines[LastBlank(lines) + 1], "Bug: ")
       \/ startsWith(lines[LastBlank(lines) + 1], "Depends-On: ")

\* C13: when the trailing trailer block of the message starts with a Bug or
\* Depends-On trailer, the inserted Change-Id line comes after that line,
\* not before it.
C13_ChangeIdAfterTags ==
    (Made /\ truthy(trailers, "ChangeId")) =>
        LET inLines  == split(Last.input)
            outLines == split(Last.output)
            tagAt    == LastBlank(inLines) + 1
        IN  BlockStartsWithTag(inLines) =>
                /\ outLines[tagAt] = inLines[tagAt]
                /\ NewChangeIdAt(outLines) # {}
                /\ \A i \in NewChangeIdAt(outLines) : i > tagAt

(***************************************************************************)
(* C14  Lines that are not trailers                                        *)
(***************************************************************************)

\* A subject, a blank line, and one last line "Solution: <free text>" or
\* with a dash-leading token.
EndsWithFreeTextLine(lines) ==
    /\ Len(lines) = 3
    /\ lines[1] = "subject"
    /\ lines[2] = ""
    /\ startsWith(lines[3], "Solution: ") \/ startsWith(lines[3], "-")

\* C14: for such a message the last line is body: its place is kept, the
\* requested Change-Id comes after it and the line directly before the
\* Change-Id is blank.
C14_FreeTextIsBody ==
    (Made /\ truthy(trailers, "ChangeId")) =>
        LET inLines  == split(Last.input)
            outLines == split(Last.output)
        IN  EndsWithFreeTextLine(inLines) =>
                /\ outLines[3] = inLines[3]
                /\ NewChangeIdAt(outLines) # {}
                /\ \A i \in NewChangeIdAt(outLines) :
                       i > 3 /\ outLines[i - 1] = ""

(***************************************************************************)
(* C15  Priority of the environment rules                                  *)
(***************************************************************************)

RuleKey(n) == slice(envConfigs[n][1], 1, indexOf(envConfigs[n][1], "="))

RulePattern(n) == substringFrom(envConfigs[n][1], indexOf(envConfigs[n][1], "=") + 1)

\* The three kinds of rule: KEY=*, KEY=*s* and KEY=value.
RuleKind(n) ==
    IF RulePattern(n) = "*" THEN "wildcard"
    ELSE IF /\ Len(RulePattern(n)) > 2
            /\ startsWith(RulePattern(n), "*")
            /\ endsWith(RulePattern(n), "*")
    THEN "substring"
    ELSE "exact"

\* Rule n matches the environment, as the three kinds are described.
RuleMatches(n, env) ==
    /\ RuleKey(n) \in DOMAIN env
    /\ LET value == env[RuleKey(n)] IN
        CASE RuleKind(n) = "exact"     -> value = RulePattern(n)
          [] RuleKind(n) = "wildcard"  -> value \notin {"", "0", "false", "no"}
          [] RuleKind(n) = "substring" ->
                 includes(value, slice(RulePattern(n), 2, Len(RulePattern(n)) - 1))

MatchingRules(env) == {n \in 1..Len(envConfigs) : RuleMatches(n, env)}

CliRule(n) ==
    envConfigs[n][2] \in { "Claude <noreply@anthropic.com>",
                           "iFlow <noreply@iflow.cn>",
                           "Qwen-Coder <noreply@alibabacloud.com>",
                           "Gemini <noreply@developers.google.com>" }

IdeRule(n) ==
    envConfigs[n][2] \in { "Cursor <noreply@cursor.com>",
                           "Kiro <noreply@kiro.dev>",
                           "Qoder <noreply@qoder.com>" }

\* C15: getCoDevelopedBy returns the identity of the first rule, in table
\* order, that matches the environment; every CLI rule comes before every
\* IDE rule, so that CLAUDECODE=1 wins over any other variable.
C15_FirstRuleWins ==
    Made =>
        /\ \A n \in MatchingRules(Last.env) :
               (\A m \in MatchingRules(Last.env) : n <= m) =>
                   Last.identity = envConfigs[n][2]
        /\ \A i, j \in 1..Len(envConfigs) : (CliRule(i) /\ IdeRule(j)) => i < j
        /\ ("CLAUDECODE" \in DOMAIN Last.env /\ Last.env["CLAUDECODE"] = "1") =>
               Last.identity = "Claude <noreply@anthropic.com>"

\* IFLOW_CLI=1 together with the bundle identifier of Kiro gives iFlow.
C15_Witness ==
    /\ Made
    /\ DOMAIN Last.env = {"IFLOW_CLI", "__CFBundleIdentifier"}
    /\ Last.env["IFLOW_CLI"] = "1"
    /\ Last.env["__CFBundleIdentifier"] = "dev.kiro.desktop"
    /\ Last.identity = "iFlow <noreply@iflow.cn>"

(***************************************************************************)
(* C16  Matching of one rule                                               *)
(***************************************************************************)

\* The variable of rule n is set and the rule does not match.
SetButNoMatch(n, env) == RuleKey(n) \in DOMAIN env /\ ~RuleMatches(n, env)

\* C16: the result is the identity of a rule that matches as its kind
\* says (exact: equal; wildcard: set and none of '', '0', 'false', 'no';
\* substring: set and containing s); a rule whose variable is set without
\* matching lets later rules be tried; the result is '' exactly when no
\* rule matches.
C16_RuleMatching ==
    Made =>
        /\ (Last.identity = "") <=> (MatchingRules(Last.env) = {})
        /\ Last.identity # "" =>
               \E n \in MatchingRules(Last.env) : Last.identity = envConfigs[n][2]
        /\ \A n \in 1..Len(envConfigs) : \A m \in MatchingRules(Last.env) :
               (SetButNoMatch(n, Last.env) /\ n < m) => Last.identity # ""

\* CLAUDECODE is set to "0", the first rule does not match, and a later
\* substring rule gives the identity.
C16_Witness ==
    /\ Made
    /\ DOMAIN Last.env = {"CLAUDECODE", "BROWSER"}
    /\ Last.env["CLAUDECODE"] = "0"
    /\ Last.env["BROWSER"] = "/h/.qoder-server/a.js"
    /\ Last.identity = "Qoder <noreply@qoder.com>"

(***************************************************************************)
(* C17  Codex                                                              *)
(***************************************************************************)

\* One of the two variables of Codex is "1" and nothing else is set.
OnlyCodex(env) ==
    \E key \in {"CODEX_MANAGED_BY_NPM", "CODEX_MANAGED_BY_BUN"} :
        DOMAIN env = {key} /\ env[key] = "1"

\* C17: with CODEX_MANAGED_BY_NPM=1 or CODEX_MANAGED_BY_BUN=1 set and all
\* other agent variables cleared, getCoDevelopedBy returns the identity of
\* Codex.
C17_Codex ==
    (Made /\ OnlyCodex(Last.env)) => Last.identity = "Codex <noreply@openai.com>"

(***************************************************************************)
(* C18  Aliases of the configuration keys                                  *)
(***************************************************************************)

ChangeIdKeys == {"gerrit.createchangeid", "commit-msg.changeid", "commitmsg.changeid"}

CoDevelopedByKeys == {"commit-msg.codevelopedby", "commitmsg.codevelopedby"}

\* The entries of a listing.
Entries(configResult) == split(trim(configResult.stdout))

\* Positions of the entries "key=value" whose key is one of keys.
EntriesOf(keys, entries) ==
    {i \in 1..Len(entries) :
        /\ indexOf(entries[i], "=") # -1
        /\ slice(entries[i], 1, indexOf(entries[i], "=")) \in keys}

ValueOf(entry) == substringFrom(entry, indexOf(entry, "=") + 1)

TruthyValue(value) == toLowerCase(value) \in {"true", "yes", "on", "1"}

FirstOf(positions) == CHOOSE i \in positions : \A j \in positions : i <= j

LastOf(positions) == CHOOSE i \in positions : \A j \in positions : j <= i

\* A listing was read with success and has an entry of one of the keys.
Listed(keys) ==
    /\ Made
    /\ ~Last.configResult.threw
    /\ Last.configResult.status = 0
    /\ EntriesOf(keys, Entries(Last.configResult)) # {}

\* C18 as stated: the first entry of one of the alias keys gives the
\* option, parsed as true exactly for 'true', 'yes', 'on', '1' in any case.
C18_FirstMatchWins ==
    LET entries == Entries(Last.configResult) IN
    /\ Listed(ChangeIdKeys) =>
           Last.config.createChangeId =
               TruthyValue(ValueOf(entries[FirstOf(EntriesOf(ChangeIdKeys, entries))]))
    /\ Listed(CoDevelopedByKeys) =>
           Last.config.createCoDevelopedBy =
               TruthyValue(ValueOf(entries[FirstOf(EntriesOf(CoDevelopedByKeys, entries))]))

\* C18, amended: the last entry "key=value" of one of the alias keys gives
\* the option, parsed as true exactly for 'true', 'yes', 'on', '1' in any
\* case; the same for the keys of createCoDevelopedBy.
C18_LastMatchWins ==
    LET entries == Entries(Last.configResult) IN
    /\ Listed(ChangeIdKeys) =>
           Last.config.createChangeId =
               TruthyValue(ValueOf(entries[LastOf(EntriesOf(ChangeIdKeys, entries))]))
    /\ Listed(CoDevelopedByKeys) =>
           Last.config.createCoDevelopedBy =
               TruthyValue(ValueOf(entries[LastOf(EntriesOf(CoDevelopedByKeys, entries))]))

\* Two aliases of createChangeId disagree: the later one is taken.
C18_Witness ==
    /\ Made
    /\ Last.configResult =
           Ok("gerrit.createchangeid=false\ncommit-msg.changeid=YES\ncommitmsg.codevelopedby=True\n")
    /\ Last.config = [createChangeId |-> TRUE, commentChar |-> "#",
                      createCoDevelopedBy |-> TRUE]

(***************************************************************************)
(* C19  generateChangeId never fails                                       *)
(***************************************************************************)

LowerHexDigits ==
    {"0", "1", "2", "3", "4", "5", "6", "7", "8", "9", "a", "b", "c", "d", "e", "f"}

\* 'I' followed by at least 32 lowercase hex characters.
WellFormedChangeId(changeId) ==
    /\ Len(changeId) >= 33
    /\ slice(changeId, 1, 1) = "I"
    /\ \A i \in 2..Len(changeId) : slice(changeId, i, i) \in LowerHexDigits

\* C19: whatever the outcome of write-tree, rev-parse, the two identity
\* queries and hash-object, and whatever the message, generateChangeId
\* returns 'I' followed by at least 32 lowercase hex characters.
C19_NeverFails == Made => WellFormedChangeId(Last.changeId)

\* write-tree could not be started and hash-object fails: the fallback
\* gives 'I' and 32 digits.
C19_Witness ==
    /\ Made
    /\ Last.git.writeTree.threw
    /\ Last.git.hashObject = "fail"
    /\ Len(Last.changeId) = 33
    /\ WellFormedChangeId(Last.changeId)

(***************************************************************************)
(* C20  Determinism of the primary path                                    *)
(***************************************************************************)

\* The call took the primary path: the input was built and hash-object
\* answered.
PrimaryPath(call) ==
    /\ call.git.hashObject = "ok"
    /\ call.git.writeTree.status = 0
    /\ ~call.git.writeTree.threw /\ ~call.git.revParseHead.threw
    /\ ~call.git.authorIdent.threw /\ ~call.git.committerIdent.threw

\* Two calls on the same message and the same Git state, both on the
\* primary path, at different times.
SameStateTwice ==
    /\ Len(calls) >= 2
    /\ Last.message = Previous.message
    /\ Last.git = Previous.git
    /\ Last.clock # Previous.clock
    /\ PrimaryPath(Last)

IdentitiesKnown(call) ==
    call.git.authorIdent.status = 0 /\ call.git.committerIdent.status = 0

FailsOrThrows(result) == result.threw \/ result.status # 0

\* One of the three Git queries of isMergeCommit fails or raises.
MergeQueryFails(g) ==
    \/ FailsOrThrows(g.writeTree)
    \/ FailsOrThrows(g.headTree)
    \/ FailsOrThrows(g.parents)

\* The first line of the file, without the white space around it, starts
\* with "Merge ".
TrimmedStartsWithMerge(f) ==
    f.exists /\ startsWith(trim(split(f.content)[1]), "Merge ")

\* exec did not skip the commit as a merge: the pipeline ran on it.
ProcessedNormally(call) ==
    /\ ~isMergeCommit(call.file, git)
    /\ call.run.outcome \in {"saved", "unchanged"}
    /\ call.run.processed

\* C21 as stated: for an existing file not named MERGE_MSG whose first line
\* does not start with "Merge ", a failing or raising write-tree, rev-parse
\* HEAD^{tree} or rev-parse HEAD^@ makes isMergeCommit answer false, and
\* the commit is processed normally.
C21_MergeFailsOpenAnyFirstLine ==
    (/\ Made
     /\ Last.file.exists
     /\ ~NamedMergeMsg(Last.file)
     /\ ~StartsWithMerge(Last.file)
     /\ MergeQueryFails(git)) => ProcessedNormally(Last)

\* C21, amended: the same, for a file whose first line does not start
\* with "Merge " once the white space around it is removed.
C21_MergeFailsOpen ==
    (/\ Made
     /\ Last.file.exists
     /\ ~NamedMergeMsg(Last.file)
     /\ ~TrimmedStartsWithMerge(Last.file)
     /\ MergeQueryFails(git)) => ProcessedNormally(Last)

\* The first commit of an empty repository gets both trailers.
C21_Witness ==
    /\ Len(calls) = 1
    /\ git = GitEmptyRepo
    /\ calls[1].file = [path |-> ".git/COMMIT_EDITMSG", exists |-> TRUE,
                        content |-> "feat: x"]
    /\ calls[1].run.outcome = "saved"
    /\ ChangeIdAt(split(file.content)) # {}
    /\ CoDevelopedByAt(split(file.content)) # {}

(***************************************************************************)
(* C22  Trailers appended to a message without trailer block               *)
(***************************************************************************)

\* A line the pipeline inserts.
IsNewTrailerLine(line) ==
    startsWith(line, "Change-Id: ") \/ startsWith(line, "Co-developed-by: ")

\* The pipeline inserted trailers into a cleaned message that had no
\* trailing trailer block.
InsertedWithoutBlock ==
    /\ Made
    /\ ~HasTrailerBlock(split(Cleaned(Last.input)))
    /\ Last.result.message # Cleaned(Last.input)

\* C22: in that case the result is the cleaned message, one blank line, and
\* the new trailer lines as last lines; the line before the blank line is
\* not blank.
C22_OneBlankBeforeTrailers ==
    InsertedWithoutBlock =>
        LET cleanedLines == split(Cleaned(Last.input))
            outLines     == split(Last.result.message)
            n            == Len(cleanedLines)
        IN  /\ Len(outLines) \in {n + 2, n + 3}
            /\ SubSeq(outLines, 1, n) = cleanedLines
            /\ outLines[n] # ""
            /\ outLines[n + 1] = ""
            /\ \A i \in (n + 2)..Len(outLines) : IsNewTrailerLine(outLines[i])
            /\ Last.result.shouldSave

\* A subject and a body without trailers get both trailers after one blank
\* line.
C22_Witness ==
    /\ InsertedWithoutBlock
    /\ Last.input = "feat: x\n\nbody "
    /\ Len(split(Last.result.message)) = 6
    /\ split(Last.result.message)[3] = "body"
    /\ split(Last.result.message)[4] = ""
    /\ startsWith(split(Last.result.message)[5], "Change-Id: I")
    /\ split(Last.result.message)[6] = "Co-developed-by: " \o ClaudeIdentity

(***************************************************************************)
(* C23  Insertion point inside an existing trailer block                   *)
(***************************************************************************)

\* The entries of the trailing trailer block that deduplication keeps.
KeptBlock(lines) == LinesAt(lines, TrailerBlock(lines) \ Deduplicated(lines))

IsCommentTrailer(line) ==
    /\ Len(line) >= 3
    /\ \/ startsWith(line, "[") /\ endsWith(line, "]")
       \/ startsWith(line, "(") /\ endsWith(line, ")")

\* Number of comment-trailers at the head of a block.
LeadingComments(block) ==
    Cardinality({i \in 1..Len(block) : \A j \in 1..i : IsCommentTrailer(block[j])})

\* Where the new trailers go, as a number of entries of the block that stay
\* before them.
InsertionPoint(block) ==
    LET comments == LeadingComments(block) IN
    IF comments = Len(block) THEN Len(block)
    ELSE IF startsWith(block[comments + 1], "Change-Id:") THEN comments + 1
    ELSE comments

PipelineSaid(call) == call.run.processed /\ call.run.result.shouldSave

\* C24: exec writes the message file if and only if the pipeline returned
\* shouldSave = true, and the file then holds the returned message; in every
\* other outcome (shouldSave = false, merge commit, missing file, debug
\* argument) the file is as it was.
C24_WriteIffShouldSave ==
    Made =>
        /\ Last.run.wrote <=> PipelineSaid(Last)
        /\ Last.run.wrote => file.content = Last.run.result.message
        /\ ~Last.run.wrote => file.content = Last.file.content
        /\ Last.run.outcome \in {"merge", "error", "exit", "unchanged"} =>
               ~Last.run.wrote

\* A fixup commit: the pipeline runs, returns shouldSave = false, and the
\* file is left alone.
C24_Witness ==
    /\ Made
    /\ Last.file.content = "fixup! feat: x\n\nbody"
    /\ Last.file.exists
    /\ Last.run.processed
    /\ ~Last.run.result.shouldSave
    /\ ~Last.run.wrote
    /\ file.content = "fixup! feat: x\n\nbody"

(***************************************************************************)
(* C25  When shouldSave is true                                            *)
(***************************************************************************)

\* The returned message has trailer lines the cleaned message has not.
TrailerInserted == Last.result.message # Cleaned(Last.input)

\* The normalizer put the blank line after the subject: the cleaned line
\* list had a non-blank second line and the cleaned message is that list
\* with the blank line added.
BlankInserted ==
    /\ SecondLineNotBlank(CleanedLines(Last.input))
    /\ Cleaned(Last.input) = SpacedOut(CleanedLines(Last.input))

\* Cleaning changed the message without adding the blank line.
OnlyStripped ==
    /\ Cleaned(Last.input) # Last.input
    /\ ~BlankInserted

\* C25: shouldSave is true exactly when a trailer was inserted or the
\* normalizer inserted the blank line after the subject; cleaning that only
\* strips never sets it, and a Co-developed-by request resolved to '' adds
\* no trailer.
C25_ShouldSaveIff ==
    Made =>
        /\ Last.result.shouldSave <=> (TrailerInserted \/ BlankInserted)
        /\ (OnlyStripped /\ ~TrailerInserted) => ~Last.result.shouldSave
        /\ (config.createCoDevelopedBy /\ Identity = "") =>
               Cardinality(CoDevelopedByAt(split(Last.result.message)))
                   = Cardinality(CoDevelopedByAt(split(Cleaned(Last.input))))
        /\ (config.createCoDevelopedBy /\ Identity = "" /\ ~config.createChangeId) =>
               ~TrailerInserted

\* A diff payload is stripped, Co-developed-by is requested but no agent is
\* found, Change-Id is disabled: nothing to save.
C25_Witness ==
    /\ Made
    /\ config.createCoDevelopedBy /\ Identity = "" /\ ~config.createChangeId
    /\ Last.input = "feat: x\n\ndiff --git a b"
    /\ Last.result = [message |-> "feat: x", shouldSave |-> FALSE]

(***************************************************************************)
(* C26  Existing Co-developed-by                                           *)
(***************************************************************************)

\* Some line of the cleaned input starts with "co-developed-by:" in any
\* letter case.
ExistingCoDevelopedBy ==
    Made /\ CoDevelopedByAt(split(Cleaned(Last.input))) # {}

\* No Change-Id is to be inserted into a cleaned message: disabled, a valid
\* one is there, or the commit is temporary.
ChangeIdSuppressed(cleaned) ==
    \/ ~config.createChangeId
    \/ HasValidChangeIdLine(split(cleaned))
    \/ IsTemporary(cleaned)

\* The Co-developed-by, Co-authored-by and Signed-off-by lines, in order.
AttributionLines(lines) ==
    LinesAt(lines, {i \in 1..Len(lines) :
                       IsAttribution(lines[i]) \/ i \in CoDevelopedByAt(lines)})

\* No Co-developed-by line is inserted and no attribution line is removed.
AttributionUntouched ==
    AttributionLines(split(Last.result.message))
        = AttributionLines(split(Cleaned(Last.input)))

\* C26 as stated: with an existing Co-developed-by line nothing is
\* inserted for it and nothing deduplicated; with Change-Id suppressed too
\* the message is returned unchanged with shouldSave = false.
C26_ExistingCoDevelopedByNeverSaved ==
    ExistingCoDevelopedBy =>
        /\ AttributionUntouched
        /\ ChangeIdSuppressed(Cleaned(Last.input)) =>
               /\ Last.result.message = Cleaned(Last.input)
               /\ ~Last.result.shouldSave

\* C26, amended: the same, with shouldSave = false unless the normalizer
\* inserted the blank line after the subject.
C26_ExistingCoDevelopedBy ==
    ExistingCoDevelopedBy =>
        /\ AttributionUntouched
        /\ ChangeIdSuppressed(Cleaned(Last.input)) =>
               /\ Last.result.message = Cleaned(Last.input)
               /\ Last.result.shouldSave <=> BlankInserted

\* The agent is Claude, the message has a lower-case co-developed-by line
\* of somebody else and a Signed-off-by line of Claude: the Change-Id is
\* inserted, the Signed-off-by line stays, no Co-developed-by is added.
C26_Witness ==
    /\ ExistingCoDevelopedBy
    /\ BothEnabled /\ Identity = ClaudeIdentity
    /\ Last.input = "feat: x\nSigned-off-by: " \o ClaudeIdentity
                      \o "\nco-developed-by: Bob <b@x.io>"
    /\ Len(split(Last.result.message)) = 5
    /\ startsWith(split(Last.result.message)[3], "Change-Id: I")
    /\ split(Last.result.message)[4] = "Signed-off-by: " \o ClaudeIdentity
    /\ split(Last.result.message)[5] = "co-developed-by: Bob <b@x.io>"

(***************************************************************************)
(* C27  The trailer zone                                                   *)
(***************************************************************************)

\* The scan of insertTrailers over the whole input.
Scanned(message) == scanLoop(split(message), 1, <<>>, <<>>, FALSE)

\* There is a blank line and every line after the last one is
\* trailer-shaped.
TrailerShapedAfterLastBlank(lines) ==
    /\ LastBlank(lines) > 0
    /\ \A j \in (LastBlank(lines) + 1)..Len(lines) : IsTrailerShaped(lines[j])

\* After the last line the scan is in trailer-candidate mode exactly when
\* the last blank line is followed by trailer-shaped lines only; the lines
\* put out and the candidates held are the input, in order.
ZoneFollowsBlankLine(message) ==
    /\ Scanned(message).inTrailerSection
           <=> TrailerShapedAfterLastBlank(split(message))
    /\ Scanned(message).outputLines \o Scanned(message).existingTrailers
           = split(message)

WellShaped(lines, commentChar) ==
    /\ \A i \in 1..(Len(lines) - 1) : ~(lines[i] = "" /\ lines[i + 1] = "")
    /\ lines[1] # ""
    /\ lines[Len(lines)] # ""
    /\ \A i \in 1..Len(lines) :
           /\ StripTrailing(lines[i], WhiteSpace) = lines[i]
           /\ ~startsWith(lines[i], commentChar)
           /\ ~startsWith(lines[i], "diff --git ")
    /\ Len(lines) >= 2 => lines[2] = ""

\* C28: a non-empty output of cleanCommitMessage has no two blank lines in
\* a row, no blank first or last line, no trailing white space, no comment
\* line, no "diff --git " line, and a blank second line if it has two lines
\* or more.
C28_CleanedShape ==
    (Made /\ Cleaned(Last.input) # "") =>
        WellShaped(split(Cleaned(Last.input)), config.commentChar)

\* Leading white space line, subject directly followed by a body line with
\* trailing white space: the cleaned message is subject, blank, body.
C28_Witness ==
    /\ Made
    /\ Last.input = " \t\nfeat: x\nbody "
    /\ Cleaned(Last.input) = "feat: x\n\nbody"
    /\ WellShaped(split(Cleaned(Last.input)), config.commentChar)

(***************************************************************************)
(* C29  Cleaning is idempotent                                             *)
(***************************************************************************)

\* cleanCommitMessage applied to its own output, for the message and the
\* comment character of a call.
CleanedAgain(message) == cleanCommitMessage(Cleaned(message), config.commentChar)

\* C29: cleaning a cleaned message returns it as it is, with shouldSave =
\* false.
C29_CleanIdempotent ==
    Made =>
        CleanedAgain(Last.input) = [message |-> Cleaned(Last.input), shouldSave |-> FALSE]

\* The first cleaning strips a comment, inserts the blank line and asks
\* for a save; the second changes nothing.
C29_Witness ==
    /\ Made
    /\ config.commentChar = "#"
    /\ Last.input = "feat: x\n# note\nbody "
    /\ cleanCommitMessage(Last.input, config.commentChar)
           = [message |-> "feat: x\n\nbody", shouldSave |-> TRUE]
    /\ CleanedAgain(Last.input) = [message |-> "feat: x\n\nbody", shouldSave |-> FALSE]

(***************************************************************************)
(* C30  Without CoDevelopedBy no line of the message is removed            *)
(***************************************************************************)

\* The TrailerSpec has no CoDevelopedBy: the field is absent or empty.
NoCoDevelopedBy ==
    \/ "CoDevelopedBy" \notin DOMAIN trailers
    \/ trailers["CoDevelopedBy"] = ""

\* The lines without the one at position p.
WithoutLine(lines, p) == SubSeq(lines, 1, p - 1) \o SubSeq(lines, p + 1, Len(lines))

\* C30: when the TrailerSpec has no CoDevelopedBy, insertTrailers removes
\* no line: with nothing to insert the output is the input; with only a
\* ChangeId the output is the input plus the one new Change-Id line, put
\* inside the trailer block or appended after a blank separator.
C30_NoLineRemoved ==
    (Made /\ NoCoDevelopedBy) =>
        LET inLines  == split(Last.input)
            outLines == split(Last.output)
            new      == RequestedLines(trailers)
        IN  IF new = <<>>
            THEN Last.output = Last.input
            ELSE IF HasTrailerBlock(inLines)
            THEN /\ Len(outLines) = Len(inLines) + 1
                 /\ \E p \in 1..Len(outLines) :
                        /\ outLines[p] = new[1]
                        /\ WithoutLine(outLines, p) = inLines
            ELSE outLines = inLines \o <<"">> \o new

\* A block holding an older Change-Id and a Signed-off-by of the identity
\* the other TrailerSpecs would deduplicate: with CoDevelopedBy empty both
\* stay and the new Change-Id goes between them.
C30_Witness ==
    /\ Made
    /\ NoCoDevelopedBy
    /\ "CoDevelopedBy" \in DOMAIN trailers
    /\ Last.input = "body\n\nChange-Id: I1a2b\nSigned-off-by: A <a@x.io>"
    /\ Last.output = "body\n\nChange-Id: I1a2b\nChange-Id: I9f\nSigned-off-by: A <a@x.io>"

====
